---- MODULE Spec2Model ----
(***************************************************************************)
(* Risk & decision simulation engine: debate arbitration, risk scoring,   *)
(* constraint evaluation and the intervention decision comparison.        *)
(*                                                                         *)
(* Numbers.  The code computes with floats; here a number x is the integer *)
(* x * Scale, and Scale is chosen so that every product and quotient the   *)
(* code forms on the modelled inputs is exact.                             *)
(* Strings.  A formatted string is the sequence of the pieces the f-string *)
(* concatenates; str(None) is "None".                                      *)
(***************************************************************************)
EXTENDS Integers, Sequences, FiniteSets, TLC

VARIABLES
    \* DebateCoordinator._arbitrate
    log,                    \* the debate log handed to _arbitrate
    consensus,              \* what _arbitrate returned (or raised)
    \* get_risk_level called on its own
    score,                  \* the argument
    level,                  \* the level returned
    \* DeliveryRiskAgent.analyze (scan, normalise)
    tickets,                \* data["tickets"]
    now,                    \* datetime.now(), in ticks
    scan,                   \* position of the scan loop / phase of analyze
    risk_score,             \* the accumulator, then the normalised score
    blocked_tickets, overdue_tickets, near_deadline_tickets,
    reasons,                \* the evidence list, supporting_signals of the result
    risk_level,
    \* ConstraintAgent.evaluate_intervention called on its own
    call,                   \* [action_type, context] of the call
    constraint_result,      \* the dict returned
    \* SimulationAgent.generate_decision_comparison
    context,                \* the context dict
    step,                   \* index of the action loop / phase
    mc,                     \* local mc of the current iteration
    verdict,                \* locals constraint_result, total_penalty, net_benefit, recommended
    comparisons,            \* the list being built, then sorted
    opinion,                \* the AgentOpinion returned with it
    \* numpy's global generator and the calls of _monte_carlo made on it
    seed,                   \* the seed given to np.random.seed
    rng,                    \* the state of the generator
    runs,                   \* the calls made so far, each with what it returned
    \* DeliveryRiskAgent.analyze after the scan
    stage,                  \* the part of analyze that runs next
    days_to_deadline,       \* local days_to_deadline
    actions,                \* what simulate_interventions returned
    generator_calls,        \* calls of model_router.generate
    generator_outcome,      \* "answered" or "failed", once it was called
    primary_reason,         \* the explanation of the AnalysisResult
    \* POST /api/simulate-team and TeamCompositionSimulator
    request,                \* the TeamSimulationRequest, or the arguments of a direct call
    caller,                 \* the endpoint, or a direct call of simulate_batch
    team_step,              \* where the what-if query stands
    team_context,           \* what _get_project_context returns for the project
    baseline,               \* the baseline_risk_score handed to simulate_batch
    mutations,              \* the TeamMutation list handed to simulate_batch
    results,                \* the list simulate_batch builds, then sorts
    roundoff,               \* the rounding error of the float sum of N baselines
    reply,                  \* what the endpoint returned (or raised)
    \* A process that calls the engine functions one after the other
    distributions,          \* the module-level dict MC_DISTRIBUTIONS
    role_profiles,          \* the module-level dict ROLE_PROFILES
    caller_context,         \* the context dict the caller passes
    caller_tickets,         \* the ticket rows the caller's project holds
    calls,                  \* calls made so far
    last_call,              \* the last call: function, arguments, what it worked with
    \* A process that runs the risk scoring of analyze several times
    scoring,                \* whether a scoring is running
    scorings,               \* what the scorings so far were given and returned
    \* The risk cache (core/cache.py) and the ticket routes that invalidate it
    clock,                  \* time.time(), in seconds
    ticks,                  \* advances of the clock so far
    _risk_cache,            \* the module-level dict _risk_cache
    graph,                  \* the tickets of the graph database, by id
    stored,                 \* history: the last set_cached_risk of a project, and
                            \* whether a ticket of the project was written since
    last_op                 \* the last operation and what it returned

arbVars  == <<log, consensus>>
lvlVars  == <<score, level>>
riskVars == <<tickets, now, scan, risk_score, blocked_tickets, overdue_tickets,
              near_deadline_tickets, reasons, risk_level>>
conVars  == <<call, constraint_result>>
simVars  == <<context, step, mc, verdict, comparisons, opinion>>
runVars  == <<seed, rng, runs>>
anaVars  == <<stage, days_to_deadline, actions, generator_calls, generator_outcome,
              primary_reason>>
teamVars == <<request, caller, team_step, team_context, baseline, mutations, results,
              roundoff, reply>>
engVars  == <<distributions, role_profiles, caller_context, caller_tickets, calls, last_call>>
scoreVars == <<scoring, scorings>>
cacheVars == <<clock, ticks, _risk_cache, graph, stored, last_op>>
moreVars == <<engVars, scoreVars, cacheVars>>
vars     == <<arbVars, lvlVars, riskVars, conVars, simVars, runVars, anaVars, teamVars,
              moreVars>>

-----------------------------------------------------------------------------
(* Bounds of the model *)

MaxTurns == 3                   \* turns of a debate log
MaxTickets == 2                 \* tickets of a project
N_SIMULATIONS == 2              \* trials of one Monte Carlo run (1000 in simulation.py)

-----------------------------------------------------------------------------
(* Fixed point arithmetic *)

Scale == 12 * 100000            \* the integer that stands for 1.0

Tenths(k)     == k * (Scale \div 10)
Hundredths(k) == k * (Scale \div 100)
Min(a, b) == IF a <= b THEN a ELSE b
Max(a, b) == IF a >= b THEN a ELSE b

None == "<None>"                \* Python's None
Str(v) == IF v = None THEN "None" ELSE v      \* str() as an f-string applies it

-----------------------------------------------------------------------------
(* core/constants.py *)

RISK_WEIGHTS == [blocked_dependency |-> Tenths(4),
                 deadline_proximity |-> Tenths(3),
                 overdue_ticket     |-> Tenths(3)]

RAMP_UP_PENALTY_DAYS == 10

RISK_THRESHOLDS == [LOW |-> Tenths(3), MEDIUM |-> Tenths(7), HIGH |-> Tenths(10)]

\* Slip: strict comparisons, which move the two boundary scores one level up.
get_risk_level_strict(s) ==
    IF s < RISK_THRESHOLDS.LOW THEN "LOW"
    ELSE IF s < RISK_THRESHOLDS.MEDIUM THEN "MEDIUM"
    ELSE "HIGH"

get_risk_level(s) ==
    IF s <= RISK_THRESHOLDS.LOW THEN "LOW"
    ELSE IF s <= RISK_THRESHOLDS.MEDIUM THEN "MEDIUM"
    ELSE "HIGH"

-----------------------------------------------------------------------------
(* debate_schema.AgentVote, AgentResponse *)

AgentVote == [PROPOSE |-> "PROPOSE", AGREE |-> "AGREE", CHALLENGE |-> "CHALLENGE",
              VETO |-> "VETO", ABSTAIN |-> "ABSTAIN"]

Votes == {AgentVote.PROPOSE, AgentVote.AGREE, AgentVote.CHALLENGE,
          AgentVote.VETO, AgentVote.ABSTAIN}

\* The fields of an AgentResponse that arbitration reads.
AgentResponse ==
    [agent_name : {"RiskAgent", "FinanceAgent"},
     vote : Votes,
     claim : {"claim A", "claim B"},
     proposed_action : {None, "Reduce Scope"}]

-----------------------------------------------------------------------------
(* DebateCoordinator._arbitrate *)

Returned(pieces) == [exc |-> "none", ret |-> pieces]
Raised(e)        == [exc |-> e, ret |-> <<>>]
NotCalled        == [exc |-> "not called", ret |-> <<>>]

IsVeto(r)      == r.vote = AgentVote.VETO
IsChallenge(r) == r.vote = AgentVote.CHALLENGE

\* Slip: the last veto is reported instead of the first.
_arbitrate_last_veto(lg) ==
    LET vetoes     == SelectSeq(lg, IsVeto)
        challenges == SelectSeq(lg, IsChallenge)
    IN  IF vetoes # <<>>
        THEN Returned(<<"Action Blocked by ", vetoes[Len(vetoes)].agent_name, ": ",
                        vetoes[Len(vetoes)].claim>>)
        ELSE IF challenges # <<>>
        THEN Returned(<<"Action Challenged: ", challenges[1].claim, " ", "-", " Requires Review">>)
        ELSE IF lg = <<>>
        THEN Raised("IndexError")
        ELSE IF lg[1].vote = AgentVote.PROPOSE
        THEN Returned(<<"Approved: ", Str(lg[1].proposed_action)>>)
        ELSE Returned(<<"Status Quo Maintained (No Action Needed)">>)

\* Slip: the last challenge is reported instead of the first.
_arbitrate_last_challenge(lg) ==
    LET vetoes     == SelectSeq(lg, IsVeto)
        challenges == SelectSeq(lg, IsChallenge)
    IN  IF vetoes # <<>>
        THEN Returned(<<"Action Blocked by ", vetoes[1].agent_name, ": ", vetoes[1].claim>>)
        ELSE IF challenges # <<>>
        THEN Returned(<<"Action Challenged: ", challenges[Len(challenges)].claim, " ", "-",
                        " Requires Review">>)
        ELSE IF lg = <<>>
        THEN Raised("IndexError")
        ELSE IF lg[1].vote = AgentVote.PROPOSE
        THEN Returned(<<"Approved: ", Str(lg[1].proposed_action)>>)
        ELSE Returned(<<"Status Quo Maintained (No Action Needed)">>)

\* Slip: any turn that proposes is taken for the proposer.
_arbitrate_any_proposer(lg) ==
    LET vetoes     == SelectSeq(lg, IsVeto)
        challenges == SelectSeq(lg, IsChallenge)
        proposals  == SelectSeq(lg, LAMBDA r : r.vote = AgentVote.PROPOSE)
    IN  IF vetoes # <<>>
        THEN Returned(<<"Action Blocked by ", vetoes[1].agent_name, ": ", vetoes[1].claim>>)
        ELSE IF challenges # <<>>
        THEN Returned(<<"Action Challenged: ", challenges[1].claim, " ", "-", " Requires Review">>)
        ELSE IF lg = <<>>
        THEN Raised("IndexError")
        ELSE IF proposals # <<>>
        THEN Returned(<<"Approved: ", Str(proposals[1].proposed_action)>>)
        ELSE Returned(<<"Status Quo Maintained (No Action Needed)">>)

_arbitrate(lg) ==
    LET vetoes     == SelectSeq(lg, IsVeto)
        challenges == SelectSeq(lg, IsChallenge)
    IN  IF vetoes # <<>>
        THEN Returned(<<"Action Blocked by ", vetoes[1].agent_name, ": ", vetoes[1].claim>>)
        ELSE IF challenges # <<>>
        THEN Returned(<<"Action Challenged: ", challenges[1].claim, " ", "-", " Requires Review">>)
        ELSE IF lg = <<>>
        THEN Raised("IndexError")                       \* proposer = log[0]
        ELSE IF lg[1].vote = AgentVote.PROPOSE
        THEN Returned(<<"Approved: ", Str(lg[1].proposed_action)>>)
        ELSE Returned(<<"Status Quo Maintained (No Action Needed)">>)

-----------------------------------------------------------------------------
(* DeliveryRiskAgent.analyze: the tickets, the scan loop, the normalisation *)

HoursPerDay == 24               \* time is counted in hours

\* A dueDate is a string; day is the calendar day a well-formed one names.
NoDueDate  == [s |-> "", day |-> 0]
BadDueDate == [s |-> "31/12/2025", day |-> 0]
DueOn(d)   == [s |-> "%Y-%m-%d", day |-> d]

\* Slip: a malformed string is read as a date instead of raising ValueError.
ParsesAsDate_lenient(due) == due.s # ""

\* datetime.strptime(due_str, "%Y-%m-%d"): midnight of the day, or ValueError.
ParsesAsDate(due) == due.s = "%Y-%m-%d"
strptime(due)     == due.day * HoursPerDay

\* (due_date - now).days: timedelta.days is the floor of the difference in days.
days_left(due, nw) == (strptime(due) - nw) \div HoursPerDay

Tickets ==
    [status         : {"InProgress", "Done"},
     priority       : {"Medium", "High"},
     dueDate        : {NoDueDate, BadDueDate, DueOn(0), DueOn(5), DueOn(8)},
     blocker_id     : {None, "TKT-9"},
     blocker_status : {None, "InProgress", "Done"}]

\* OPTIONAL MATCH: a ticket without a blocker has neither blocker_id nor blocker_status.
TicketRows == {t \in Tickets : t.blocker_id = None => t.blocker_status = None}

TicketLists == UNION {[1..n -> TicketRows] : n \in 0..MaxTickets}

\* The instants datetime.now() is drawn from: midnight and noon of day 0.
Nows == {0, 12}

IsActive(tk) == tk.status # "Done"

\* Pattern 1 of the scan: the weight a blocked dependency adds.
\* Slip: the priority surcharge is applied outside the blocked branch.
blocked_weight_priority_alone(tk) ==
    (IF tk.blocker_id # None /\ tk.blocker_status # "Done"
     THEN RISK_WEIGHTS.blocked_dependency ELSE 0)
    + (IF tk.priority = "High" THEN Tenths(1) ELSE 0)

IsBlocked(tk) == tk.blocker_id # None /\ tk.blocker_status # "Done"

blocked_weight(tk) ==
    IF IsBlocked(tk)
    THEN RISK_WEIGHTS.blocked_dependency + (IF tk.priority = "High" THEN Tenths(1) ELSE 0)
    ELSE 0

\* Pattern 2 of the scan: "overdue", "near" or "none".
deadline_pattern(tk, nw) ==
    IF tk.dueDate.s = "" THEN "none"
    ELSE IF ~ParsesAsDate(tk.dueDate) THEN "none"          \* except ValueError: pass
    ELSE IF days_left(tk.dueDate, nw) < 0 THEN "overdue"
    ELSE IF days_left(tk.dueDate, nw) <= 7 THEN "near"
    ELSE "none"

deadline_weight(tk, nw) ==
    CASE deadline_pattern(tk, nw) = "overdue" -> RISK_WEIGHTS.overdue_ticket
      [] deadline_pattern(tk, nw) = "near"    -> RISK_WEIGHTS.deadline_proximity
      [] OTHER                                -> 0

\* One entry of reasons: the text appended and the values it formats.
Reason(text, tk, days) == [text |-> text, ticket |-> tk, days |-> days]

\* The entries the scan appends to reasons for the active ticket tk, in the
\* order of the loop body.
reasons_for(tk, nw) ==
    (IF IsBlocked(tk)
     THEN <<Reason("is blocked by", tk, 0)>>
          \o (IF tk.priority = "High"
              THEN <<Reason("Blocked ticket is HIGH priority", tk, 0)>> ELSE <<>>)
     ELSE <<>>)
    \o (CASE deadline_pattern(tk, nw) = "overdue" ->
                 <<Reason("days OVERDUE", tk, -days_left(tk.dueDate, nw))>>
          [] deadline_pattern(tk, nw) = "near" ->
                 <<Reason("due in days", tk, days_left(tk.dueDate, nw))>>
          [] OTHER -> <<>>)

total_active_of(tks) == Cardinality({i \in 1..Len(tks) : tks[i].status # "Done"})

\* Slip: the blend is not clipped to 1.0.
normalise_unclipped(raw, flagged_count, total_active) ==
    IF total_active > 0 /\ raw > 0
    THEN (raw * 6) \div 10
         + (Min(raw, Scale) * flagged_count * 4) \div (Max(total_active, 1) * 10)
    ELSE raw

\* risk_score after the blend and the clip; issue_ratio is flagged_count / max(total_active, 1).
normalise(raw, flagged_count, total_active) ==
    LET blended == IF total_active > 0 /\ raw > 0
                   THEN (raw * 6) \div 10
                        + (Min(raw, Scale) * flagged_count * 4)
                              \div (Max(total_active, 1) * 10)
                   ELSE raw
    IN  Min(blended, Scale)

-----------------------------------------------------------------------------
(* ConstraintAgent.evaluate_intervention *)

\* dict.get(key, default)
Get(d, key, default) == IF key \in DOMAIN d THEN d[key] ELSE default

\* Slip: "<=" for "<", which makes a deadline of exactly 10 days infeasible.
evaluate_intervention_inclusive(action_type, ctx) ==
    IF action_type = "ADD_ENGINEER"
    THEN IF Get(ctx, "days_to_deadline", 7) <= RAMP_UP_PENALTY_DAYS
         THEN [feasible |-> FALSE, penalty |-> Tenths(8),
               reason |-> <<"Ramp-up time (avg ", ToString(RAMP_UP_PENALTY_DAYS),
                            " days) exceeds deadline window.">>]
         ELSE [feasible |-> TRUE, penalty |-> Tenths(2),
               reason |-> <<"Standard onboarding cost applies.">>]
    ELSE IF action_type = "ESCALATE_DEPENDENCY"
    THEN [feasible |-> TRUE, penalty |-> Tenths(1),
          reason |-> <<"Uses social capital but clears blockage.">>]
    ELSE [feasible |-> TRUE, penalty |-> 0, reason |-> <<"No constraints detected.">>]

evaluate_intervention(action_type, ctx) ==
    IF action_type = "ADD_ENGINEER"
    THEN IF Get(ctx, "days_to_deadline", 7) < RAMP_UP_PENALTY_DAYS
         THEN [feasible |-> FALSE, penalty |-> Tenths(8),
               reason |-> <<"Ramp-up time (avg ", ToString(RAMP_UP_PENALTY_DAYS),
                            " days) exceeds deadline window.">>]
         ELSE [feasible |-> TRUE, penalty |-> Tenths(2),
               reason |-> <<"Standard onboarding cost applies.">>]
    ELSE IF action_type = "ESCALATE_DEPENDENCY"
    THEN [feasible |-> TRUE, penalty |-> Tenths(1),
          reason |-> <<"Uses social capital but clears blockage.">>]
    ELSE [feasible |-> TRUE, penalty |-> 0, reason |-> <<"No constraints detected.">>]

-----------------------------------------------------------------------------
(* SimulationAgent._monte_carlo *)

MC_DISTRIBUTIONS ==
    [ADD_ENGINEER        |-> [rr_mean |-> Hundredths(30), rr_std |-> Hundredths(10),
                              cp_mean |-> Hundredths(20), cp_std |-> Hundredths(5)],
     ESCALATE_DEPENDENCY |-> [rr_mean |-> Hundredths(40), rr_std |-> Hundredths(12),
                              cp_mean |-> Hundredths(10), cp_std |-> Hundredths(4)],
     REDUCE_SCOPE        |-> [rr_mean |-> Hundredths(50), rr_std |-> Hundredths(15),
                              cp_mean |-> Hundredths(15), cp_std |-> Hundredths(5)],
     ACCEPT_DELAY        |-> [rr_mean |-> Hundredths(0),  rr_std |-> Hundredths(2),
                              cp_mean |-> Hundredths(0),  cp_std |-> Hundredths(1)]]

DefaultDistribution ==
    [rr_mean |-> 0, rr_std |-> Hundredths(5), cp_mean |-> 0, cp_std |-> Hundredths(2)]

\* x * 0.7, x * 1.2, ... : x times a number of tenths
TimesTenths(x, k) == (x * k) \div 10

\* Slip: the dependency depth of the context is not looked at.
adjusted_without_depth(action, ctx) ==
    LET dist      == Get(MC_DISTRIBUTIONS, action, DefaultDistribution)
        signals   == Get(ctx, "signals", <<>>)
        contention  == Get(signals, "contention_score", 0)
        skill_score == Get(signals, "skill_match_score", Scale)
        rr2 == IF contention > 3 /\ action = "REDUCE_SCOPE"
               THEN TimesTenths(dist.rr_mean, 12) ELSE dist.rr_mean
        rr3 == IF skill_score < Tenths(8) /\ action = "ADD_ENGINEER"
               THEN TimesTenths(rr2, 13) ELSE rr2
        rr4 == IF action = "ESCALATE_DEPENDENCY" /\ Get(ctx, "is_blocked", FALSE)
               THEN Hundredths(55) ELSE rr3
        late == action = "ADD_ENGINEER" /\ Get(ctx, "days_to_deadline", 30) < 7
        rr5 == IF late THEN TimesTenths(rr4, 4) ELSE rr4
        cp5 == IF late THEN TimesTenths(dist.cp_mean, 18) ELSE dist.cp_mean
    IN  [rr_mean |-> rr5, rr_std |-> dist.rr_std, cp_mean |-> cp5, cp_std |-> dist.cp_std]

\* The last adjustment applies to Add Engineer less than 7 days before the
\* deadline, 30 days standing for a deadline the context does not give.
\* Slip: "<=" for "<".
late_deadline_inclusive(action, ctx) ==
    action = "ADD_ENGINEER" /\ Get(ctx, "days_to_deadline", 30) <= 7

late_deadline(action, ctx) ==
    action = "ADD_ENGINEER" /\ Get(ctx, "days_to_deadline", 30) < 7

\* The locals rr_mean, rr_std, cp_mean, cp_std of _monte_carlo when it samples:
\* the action's entry of the table, copied, then adjusted in the order of the code.
sampling_means(table, action, ctx) ==
    LET dist      == Get(table, action, DefaultDistribution)
        signals   == Get(ctx, "signals", <<>>)
        dep_depth == Get(signals, "dependency_depth", 0)
        contention  == Get(signals, "contention_score", 0)
        skill_score == Get(signals, "skill_match_score", Scale)
        rr1 == IF dep_depth > 2 /\ action = "ADD_ENGINEER"
               THEN TimesTenths(dist.rr_mean, 7) ELSE dist.rr_mean
        cp1 == IF dep_depth > 2 /\ action = "ADD_ENGINEER"
               THEN TimesTenths(dist.cp_mean, 12) ELSE dist.cp_mean
        rr2 == IF contention > 3 /\ action = "REDUCE_SCOPE"
               THEN TimesTenths(rr1, 12) ELSE rr1
        rr3 == IF skill_score < Tenths(8) /\ action = "ADD_ENGINEER"
               THEN TimesTenths(rr2, 13) ELSE rr2
        rr4 == IF action = "ESCALATE_DEPENDENCY" /\ Get(ctx, "is_blocked", FALSE)
               THEN Hundredths(55) ELSE rr3
        late == late_deadline(action, ctx)
        rr5 == IF late THEN TimesTenths(rr4, 4) ELSE rr4
        cp5 == IF late THEN TimesTenths(cp1, 18) ELSE cp1
    IN  [rr_mean |-> rr5, rr_std |-> dist.rr_std, cp_mean |-> cp5, cp_std |-> dist.cp_std]

\* The means and deviations _monte_carlo samples with, read from MC_DISTRIBUTIONS.
adjusted(action, ctx) == sampling_means(MC_DISTRIBUTIONS, action, ctx)

\* MC_DISTRIBUTIONS after a call of _monte_carlo: the entry is read with
\* dist["rr_mean"], which copies the float, and only the local is reassigned.
\* Slip: the adjusted means are stored back into the entry of the table.
table_after_monte_carlo_aliased(table, action, means) ==
    IF action \in DOMAIN table THEN [table EXCEPT ![action] = means] ELSE table

table_after_monte_carlo(table, action, means) == table

\* MC_DISTRIBUTIONS after the calls of _monte_carlo for the actions, one by one.
RECURSIVE table_after_runs(_, _, _)
table_after_runs(table, actions_run, ctx) ==
    IF actions_run = <<>> THEN table
    ELSE table_after_runs(
             table_after_monte_carlo(table, Head(actions_run),
                                     sampling_means(table, Head(actions_run), ctx)),
             Tail(actions_run), ctx)

\* np.random.normal(loc, scale, size): sample i is loc + scale * z[i], z[i] the
\* i-th standard normal deviate drawn; np.clip(x, 0.0, 1.0).
normal(loc, scale, z) == [i \in DOMAIN z |-> loc + scale * z[i]]
clip(xs) == [i \in DOMAIN xs |-> Max(0, Min(Scale, xs[i]))]

RECURSIVE Sum(_)
Sum(xs) == IF xs = <<>> THEN 0 ELSE xs[1] + Sum(Tail(xs))

\* The deviates a run may draw: two standard deviations below the mean and, to
\* reach the upper clip, seven above.
Deviates == {-2, 7}
Draws    == [1..N_SIMULATIONS -> Deviates]

\* sorted(xs), ascending
RECURSIVE InsertAsc(_, _)
InsertAsc(sorted, x) ==
    IF sorted = <<>> THEN <<x>>
    ELSE IF sorted[1] <= x THEN <<sorted[1]>> \o InsertAsc(Tail(sorted), x)
    ELSE <<x>> \o sorted

RECURSIVE SortAsc(_)
SortAsc(xs) ==
    IF xs = <<>> THEN <<>>
    ELSE InsertAsc(SortAsc(SubSeq(xs, 1, Len(xs) - 1)), xs[Len(xs)])

\* np.percentile(xs, q): linear interpolation between the two order statistics
\* around the position q/100 * (n - 1).
percentile(xs, q) ==
    LET a    == SortAsc(xs)
        pos  == q * (Len(a) - 1)
        lo   == pos \div 100 + 1
        hi   == Min(lo + 1, Len(a))
    IN  a[lo] + ((a[hi] - a[lo]) * (pos % 100)) \div 100

\* The rr_samples of a run with the adjusted distribution a that drew z_rr.
rr_samples_of(a, z_rr) == clip(normal(a.rr_mean, a.rr_std, z_rr))

\* The statistics of one run that drew z_rr and z_cp.
_monte_carlo(action, ctx, z_rr, z_cp) ==
    LET a    == adjusted(action, ctx)
        rr_samples  == rr_samples_of(a, z_rr)
        cp_samples  == clip(normal(a.cp_mean, a.cp_std, z_cp))
        net_samples == [i \in 1..N_SIMULATIONS |-> rr_samples[i] - cp_samples[i]]
        positive    == Cardinality({i \in 1..N_SIMULATIONS : net_samples[i] > Hundredths(5)})
    IN  [mean_rr |-> Sum(rr_samples) \div N_SIMULATIONS,
         p5_rr   |-> percentile(rr_samples, 5),
         p95_rr  |-> percentile(rr_samples, 95),
         mean_cp |-> Sum(cp_samples) \div N_SIMULATIONS,
         prob_positive |-> (positive * Scale) \div N_SIMULATIONS]

\* numpy's global generator.  Its state determines every deviate drawn from it
\* and each deviate drawn advances it; a linear congruential generator of
\* period RngPeriod stands for the Mersenne Twister.
RngPeriod == 16

np_random_seed(s) == s % RngPeriod
Advance(state)    == (5 * state + 3) % RngPeriod
DeviateOf(state)  == IF state >= RngPeriod \div 2 THEN 7 ELSE -2

RECURSIVE AdvanceBy(_, _)
AdvanceBy(state, n) == IF n = 0 THEN state ELSE AdvanceBy(Advance(state), n - 1)

\* np.random.normal(size=n) in state: the n deviates it draws.
Stream(state, n) == [i \in 1..n |-> DeviateOf(AdvanceBy(state, i - 1))]

-----------------------------------------------------------------------------
(* SimulationAgent.generate_decision_comparison *)

possible_actions == <<"ADD_ENGINEER", "ESCALATE_DEPENDENCY", "REDUCE_SCOPE", "ACCEPT_DELAY">>

\* action.replace("_", " ").title()
Title(action) ==
    CASE action = "ADD_ENGINEER"        -> "Add Engineer"
      [] action = "ESCALATE_DEPENDENCY" -> "Escalate Dependency"
      [] action = "REDUCE_SCOPE"        -> "Reduce Scope"
      [] action = "ACCEPT_DELAY"        -> "Accept Delay"

\* round(x, 3)
Round3(x) == ((x + (Scale \div 2000)) \div (Scale \div 1000)) * (Scale \div 1000)

cost_tier(total_penalty) ==
    IF total_penalty < Hundredths(15) THEN "Low"
    ELSE IF total_penalty < Hundredths(30) THEN "Medium"
    ELSE "High"

\* Slip: the feasibility of the action is left out of the conjunction.
is_recommended_ignoring_feasibility(cr, net_benefit, prob_positive) ==
    net_benefit > Hundredths(5) /\ prob_positive > Hundredths(50)

is_recommended(cr, net_benefit, prob_positive) ==
    cr.feasible /\ net_benefit > Hundredths(5) /\ prob_positive > Hundredths(50)

\* The locals of one loop iteration, from the constraint result and the run.
judge(cr, run) ==
    LET total_penalty == run.mean_cp + cr.penalty
        net_benefit   == run.mean_rr - total_penalty
    IN  [total_penalty |-> total_penalty,
         net_benefit   |-> net_benefit,
         cost          |-> cost_tier(total_penalty),
         recommended   |-> is_recommended(cr, net_benefit, run.prob_positive)]

\* The DecisionComparison appended; reason names the branch that wrote it.
comparison(action, cr, run, v) ==
    [action         |-> Title(action),
     risk_reduction |-> Round3(run.mean_rr),
     cost           |-> v.cost,
     feasible       |-> cr.feasible,
     recommended    |-> v.recommended,
     reason         |-> IF ~cr.feasible THEN cr.reason
                        ELSE IF v.recommended THEN <<"Monte Carlo">>
                        ELSE <<"Low expected benefit">>]

\* Slip: the list is ordered by risk_reduction alone.
KeyGE_risk_only(a, b) == a.risk_reduction >= b.risk_reduction

\* list.sort(key=lambda x: (x.recommended, x.risk_reduction), reverse=True):
\* descending, equal keys keep their order.
KeyGE(a, b) ==
    \/ a.recommended /\ ~b.recommended
    \/ a.recommended = b.recommended /\ a.risk_reduction >= b.risk_reduction

RECURSIVE InsertDesc(_, _)
InsertDesc(sorted, c) ==
    IF sorted = <<>> THEN <<c>>
    ELSE IF KeyGE(sorted[1], c) THEN <<sorted[1]>> \o InsertDesc(Tail(sorted), c)
    ELSE <<c>> \o sorted

RECURSIVE SortDesc(_)
SortDesc(cs) ==
    IF cs = <<>> THEN <<>>
    ELSE InsertDesc(SortDesc(SubSeq(cs, 1, Len(cs) - 1)), cs[Len(cs)])

\* The AgentOpinion; its evidence holds one entry per recommended action, in
\* the order of the loop.
simulation_opinion(sorted, evidence) ==
    LET recommended == SelectSeq(sorted, LAMBDA c : c.recommended)
    IN  [agent |-> "SimulationAgent",
         claim |-> IF Len(recommended) = 0
                   THEN <<"No viable interventions found by simulation.">>
                   ELSE IF Len(recommended) = 1
                   THEN <<"Simulation recommends: ", recommended[1].action, ".">>
                   ELSE <<"Simulation confirms ", sorted[1].action, " as optimal strategy.">>,
         confidence |-> IF Len(recommended) = 0 THEN Hundredths(80)
                        ELSE IF Len(recommended) = 1 THEN Hundredths(85)
                        ELSE Hundredths(88),
         evidence |-> IF evidence = <<>> THEN <<"Constraints block all options">>
                      ELSE evidence]

-----------------------------------------------------------------------------
(* DeliveryRiskAgent.analyze after the scan: the context, the legacy actions *)
(* list, the explanation and its fallback                                   *)

\* days_to_deadline: whole days from now to the earliest parsable due date of an
\* active ticket, 30 without one.
days_to_deadline_of(tks, nw) ==
    LET dated == {i \in 1..Len(tks) : /\ tks[i].status # "Done"
                                      /\ tks[i].dueDate.s # ""
                                      /\ ParsesAsDate(tks[i].dueDate)}
        earliest_due == CHOOSE d \in {strptime(tks[i].dueDate) : i \in dated} :
                            \A i \in dated : d <= strptime(tks[i].dueDate)
    IN  IF dated = {} THEN 30 ELSE (earliest_due - nw) \div HoursPerDay

sim_context(blocked, days, signals) ==
    [is_blocked |-> Len(blocked) > 0, days_to_deadline |-> Max(days, 1), signals |-> signals]

\* f"{x:.0%}": the nearest whole percent, a tie going to the even one.
Pct(x) ==
    LET q == (x * 100) \div Scale
        r == (x * 100) % Scale
    IN  IF 2 * r > Scale \/ (2 * r = Scale /\ q % 2 = 1) THEN q + 1 ELSE q

\* recommendations.sort(key=lambda x: x[0], reverse=True)
RECURSIVE InsertByBenefit(_, _)
InsertByBenefit(sorted, r) ==
    IF sorted = <<>> THEN <<r>>
    ELSE IF sorted[1].net_benefit >= r.net_benefit
    THEN <<sorted[1]>> \o InsertByBenefit(Tail(sorted), r)
    ELSE <<r>> \o sorted

RECURSIVE SortByBenefit(_)
SortByBenefit(rs) ==
    IF rs = <<>> THEN <<>>
    ELSE InsertByBenefit(SortByBenefit(SubSeq(rs, 1, Len(rs) - 1)), rs[Len(rs)])

\* One pass of the loop of simulate_interventions, for an action with its
\* constraint result cr and its Monte Carlo statistics run: whether the action is
\* recommended, its net_benefit and its message.  A message is kept as the
\* values its f-string formats.
recommendation(action, cr, run) ==
    LET net_benefit == run.mean_rr - run.mean_cp - cr.penalty
    IN  [kept |-> /\ cr.feasible
                  /\ net_benefit > Hundredths(5)
                  /\ run.prob_positive > Hundredths(50),
         net_benefit |-> net_benefit,
         msg |-> [action |-> Title(action),
                  risk   |-> Pct(run.mean_rr),
                  conf   |-> Pct(run.prob_positive),
                  note   |-> IF cr.reason # <<>> /\ cr.penalty > 0
                             THEN cr.reason ELSE <<>>]]

\* The sort of the recommendations and the messages returned.
ranked_messages(recommendations) ==
    LET ranked == SortByBenefit(recommendations)
    IN  [i \in 1..Len(ranked) |-> ranked[i].msg]

\* SimulationAgent.simulate_interventions, the run of the i-th action drawing
\* the pair d[i]: the messages of the actions it recommends, ranked.
simulate_interventions(ctx, d) ==
    ranked_messages(
        SelectSeq([i \in 1..Len(possible_actions) |->
                      recommendation(possible_actions[i],
                                     evaluate_intervention(possible_actions[i], ctx),
                                     _monte_carlo(possible_actions[i], ctx, d[i][1], d[i][2]))],
                  LAMBDA e : e.kept))

\* One part of the fallback text: its heading and the values it formats.
Part(heading, ticket, days, count, entries, suggested) ==
    [part |-> heading, ticket |-> ticket, days |-> days, count |-> count,
     entries |-> entries, suggested |-> suggested]

\* int(x): truncation towards zero, of risk_score * days_to_deadline * 0.5
Truncated(num, den) == IF num >= 0 THEN num \div den ELSE -((-num) \div den)

\* Slip: the counterfactual part is written from a risk_score of 0.3 on.
_generate_structured_fallback_inclusive(score_, days, blocked, overdue, near, decision_comparison, actions_) ==
    LET driver ==
            IF blocked # <<>>
            THEN Part("Primary Risk: is blocked by", <<blocked[1]>>, 0, 0, <<>>, <<>>)
            ELSE IF overdue # <<>>
            THEN Part("Primary Risk: is overdue", <<overdue[1]>>, 0, 0, <<>>, <<>>)
            ELSE IF near # <<>>
            THEN Part("Primary Risk: is due in", <<near[1]>>, days, 0, <<>>, <<>>)
            ELSE Part("Status: on track", <<>>, 0, 0, <<>>, <<>>)
        counterfactual ==
            IF score_ >= Tenths(3)
            THEN <<Part("If No Action Taken", <<>>,
                        Max(1, Truncated(score_ * days, 2 * Scale)), Len(blocked),
                        <<>>, <<>>)>>
            ELSE <<>>
        recommended == SelectSeq(decision_comparison, LAMBDA c : c.recommended)
        intervention ==
            IF Len(recommended) >= 2
            THEN <<Part("Recommended Intervention, Alternative", <<>>, 0, 0,
                        <<recommended[1], recommended[2]>>, <<>>)>>
            ELSE IF Len(recommended) = 1
            THEN <<Part("Recommended Intervention", <<>>, 0, 0, <<recommended[1]>>, <<>>)>>
            ELSE IF actions_ # <<>>
            THEN <<Part("Suggested Action", <<>>, 0, 0, <<>>, <<actions_[1]>>)>>
            ELSE <<>>
    IN  <<driver>> \o counterfactual \o intervention

\* DeliveryRiskAgent._generate_structured_fallback: the parts it joins.
_generate_structured_fallback(score_, days, blocked, overdue, near, decision_comparison, actions_) ==
    LET driver ==
            IF blocked # <<>>
            THEN Part("Primary Risk: is blocked by", <<blocked[1]>>, 0, 0, <<>>, <<>>)
            ELSE IF overdue # <<>>
            THEN Part("Primary Risk: is overdue", <<overdue[1]>>, 0, 0, <<>>, <<>>)
            ELSE IF near # <<>>
            THEN Part("Primary Risk: is due in", <<near[1]>>, days, 0, <<>>, <<>>)
            ELSE Part("Status: on track", <<>>, 0, 0, <<>>, <<>>)
        counterfactual ==
            IF score_ > Tenths(3)
            THEN <<Part("If No Action Taken", <<>>,
                        Max(1, Truncated(score_ * days, 2 * Scale)), Len(blocked),
                        <<>>, <<>>)>>
            ELSE <<>>
        recommended == SelectSeq(decision_comparison, LAMBDA c : c.recommended)
        intervention ==
            IF Len(recommended) >= 2
            THEN <<Part("Recommended Intervention, Alternative", <<>>, 0, 0,
                        <<recommended[1], recommended[2]>>, <<>>)>>
            ELSE IF Len(recommended) = 1
            THEN <<Part("Recommended Intervention", <<>>, 0, 0, <<recommended[1]>>, <<>>)>>
            ELSE IF actions_ # <<>>
            THEN <<Part("Suggested Action", <<>>, 0, 0, <<>>, <<actions_[1]>>)>>
            ELSE <<>>
    IN  <<driver>> \o counterfactual \o intervention

\* The text before the generator is asked, and a text the generator returned.
NoRisksDetected == <<Part("No significant risks detected", <<>>, 0, 0, <<>>, <<>>)>>
GeneratedText   == <<Part("text of model_router.generate", <<>>, 0, 0, <<>>, <<>>)>>

-----------------------------------------------------------------------------
(* team_simulator.py: ROLE_PROFILES, TeamCompositionSimulator *)

\* velocity_boost and blocked_resolution as numbers, ramp_up_days in days,
\* cost_per_day in dollars.
ROLE_PROFILES ==
    [Senior_Engineer |-> [velocity_boost |-> Hundredths(20), ramp_up_days |-> 3,
                          cost_per_day |-> 700, blocked_resolution |-> Hundredths(15)],
     Mid_Engineer    |-> [velocity_boost |-> Hundredths(12), ramp_up_days |-> 7,
                          cost_per_day |-> 450, blocked_resolution |-> Hundredths(5)],
     Junior_Engineer |-> [velocity_boost |-> Hundredths(5), ramp_up_days |-> 14,
                          cost_per_day |-> 250, blocked_resolution |-> Hundredths(2)],
     Tech_Lead       |-> [velocity_boost |-> Hundredths(10), ramp_up_days |-> 5,
                          cost_per_day |-> 800, blocked_resolution |-> Hundredths(25)],
     QA_Engineer     |-> [velocity_boost |-> Hundredths(8), ramp_up_days |-> 5,
                          cost_per_day |-> 400, blocked_resolution |-> Hundredths(3)],
     DevOps_Engineer |-> [velocity_boost |-> Hundredths(6), ramp_up_days |-> 5,
                          cost_per_day |-> 550, blocked_resolution |-> Hundredths(20)]]

\* An optional float: None, or a number.
NoFloat   == [given |-> FALSE, value |-> 0]
Float(x)  == [given |-> TRUE, value |-> x]

\* A warning is the pieces of its text; None is the empty sequence.
NoWarning == <<>>

\* TeamCompositionSimulator._estimate_baseline_risk
_estimate_baseline_risk(ctx) ==
    Min(Hundredths(30)
        + (IF ctx.is_blocked THEN Hundredths(25) ELSE 0)
        + (IF ctx.days_to_deadline < 7 THEN Hundredths(20) ELSE 0)
        + (IF ctx.active_tickets > 5 THEN Hundredths(10) ELSE 0),
        Scale)

\* The feasibility check of simulate_mutation: <<feasible, warning>>.
\* Slip: a ramp-up as long as the time to the deadline is let through.
feasibility_strict(mutation, role_profile, ctx) ==
    LET team_size == ctx.team_size
        days      == ctx.days_to_deadline
        late == role_profile.ramp_up_days > days
        full == team_size >= 8
    IN  IF mutation.action = "add"
        THEN IF full
             THEN <<FALSE, <<"Team already at maximum recommended size (8). Brooks's Law applies.">>>>
             ELSE IF late
             THEN <<FALSE, <<"Ramp-up time (", ToString(role_profile.ramp_up_days),
                            "d) exceeds deadline (", ToString(days),
                            "d). Member won't be effective in time.">>>>
             ELSE <<TRUE, NoWarning>>
        ELSE IF mutation.action = "remove"
        THEN IF team_size <= 1
             THEN <<FALSE, <<"Cannot remove the only team member.">>>>
             ELSE IF team_size <= 2 /\ ctx.active_tickets > 3
             THEN <<FALSE, <<"Removing a member leaves insufficient capacity for active tickets.">>>>
             ELSE <<TRUE, NoWarning>>
        ELSE <<TRUE, NoWarning>>

feasibility(mutation, role_profile, ctx) ==
    LET team_size == ctx.team_size
        days      == ctx.days_to_deadline
        late == role_profile.ramp_up_days >= days
        full == team_size >= 8
    IN  IF mutation.action = "add"
        THEN IF full                                       \* the later assignment wins
             THEN <<FALSE, <<"Team already at maximum recommended size (8). Brooks's Law applies.">>>>
             ELSE IF late
             THEN <<FALSE, <<"Ramp-up time (", ToString(role_profile.ramp_up_days),
                            "d) exceeds deadline (", ToString(days),
                            "d). Member won't be effective in time.">>>>
             ELSE <<TRUE, NoWarning>>
        ELSE IF mutation.action = "remove"
        THEN IF team_size <= 1
             THEN <<FALSE, <<"Cannot remove the only team member.">>>>
             ELSE IF team_size <= 2 /\ ctx.active_tickets > 3
             THEN <<FALSE, <<"Removing a member leaves insufficient capacity for active tickets.">>>>
             ELSE <<TRUE, NoWarning>>
        ELSE <<TRUE, NoWarning>>

\* What one trial draws: g the standard deviate of random.gauss, hit whether
\* random.random() is below blocked_resolution, u the tenths of the way
\* random.uniform goes from its lower to its upper end.
TrialDraws == {[g |-> -1, hit |-> FALSE, u |-> 0], [g |-> 1, hit |-> TRUE, u |-> 5]}
TeamDraws  == [1..N_SIMULATIONS -> TrialDraws]

\* max(0, min(1, x)), the clip of a projected risk.
\* Slip: the lower end is not enforced.
clamp_above(x) == Min(Scale, x)

clamp(x) == Max(0, Min(Scale, x))

\* One trial of the loop: <<projected risk sample, velocity sample>>.
trial(mutation, role_profile, ctx, baseline_risk_score, d) ==
    LET vb        == role_profile.velocity_boost
        team_size == ctx.team_size
        days      == Max(ctx.days_to_deadline, 1)
    IN  IF mutation.action = "add"
        THEN LET velocity_boost == vb + TimesTenths(vb, 3) * d.g
                 ramp_penalty   == (role_profile.ramp_up_days * Scale) \div (days * 10)
                 blocker_relief == IF ctx.is_blocked /\ d.hit
                                   THEN Hundredths(10) + (Hundredths(15) * d.u) \div 10
                                   ELSE 0
                 net_rr         == Max(0, velocity_boost + blocker_relief - ramp_penalty)
                 brooks_factor  == Max(30, 100 - (team_size - 5) * 15)   \* in hundredths
                 net_rr2        == IF team_size > 5 THEN (net_rr * brooks_factor) \div 100
                                   ELSE net_rr
             IN  <<clamp(baseline_risk_score - net_rr2), velocity_boost - ramp_penalty>>
        ELSE IF mutation.action = "remove"
        THEN LET velocity_loss == vb + TimesTenths(vb, 2) * d.g
                 focus_bonus   == IF team_size > 5 THEN (Hundredths(5) * d.u) \div 10 ELSE 0
                 net_increase  == Max(0, velocity_loss - focus_bonus)
             IN  <<clamp(baseline_risk_score + net_increase), focus_bonus - velocity_loss>>
        ELSE LET velocity_boost == TimesTenths(vb, 8) + TimesTenths(vb, 3) * d.g
                 ramp_penalty   == (role_profile.ramp_up_days * Scale * 8) \div (days * 100)
                 net_rr         == Max(0, velocity_boost - ramp_penalty)
             IN  <<clamp(baseline_risk_score - net_rr), velocity_boost - ramp_penalty>>

\* The key of ROLE_PROFILES for a role name.
RoleKey(role) ==
    CASE role = "Senior Engineer" -> "Senior_Engineer"
      [] role = "Mid Engineer"    -> "Mid_Engineer"
      [] role = "Junior Engineer" -> "Junior_Engineer"
      [] role = "Tech Lead"       -> "Tech_Lead"
      [] role = "QA Engineer"     -> "QA_Engineer"
      [] role = "DevOps Engineer" -> "DevOps_Engineer"
      [] OTHER                    -> role

\* sum(risk_samples) / N in floating point.  The additions round: the result is
\* the exact mean off by a rounding error of either sign, or by none.  The
\* error is far below the resolution of the arithmetic here, so it shows only
\* where it decides a sign: when every sample is the same value x, the exact
\* mean is x and the float mean is x, just above x or just below x.  That error
\* e is a function of x and N alone.  A multiple of 1/8 (0, 0.5, 0.75, 1, ...)
\* is summed without error.
Roundoff == {-1, 0, 1}
SumsExactly(x) == x % (Scale \div 8) = 0
mean_of_risk(risk_samples, e) ==
    LET exact == Sum(risk_samples) \div Len(risk_samples)
        same  == \A i \in 1..Len(risk_samples) : risk_samples[i] = risk_samples[1]
    IN  IF same /\ ~SumsExactly(risk_samples[1]) THEN exact + e ELSE exact

\* TeamCompositionSimulator.simulate_mutation in the project context ctx, the N
\* trials drawing ds, the sum of the risk samples rounding by e.  confidence and
\* reasoning are not part of the result here; mean_velocity is kept exact.
simulate_mutation(mutation, baseline_risk_score, ctx, ds, e) ==
    LET role_profile == Get(ROLE_PROFILES, RoleKey(mutation.role), ROLE_PROFILES.Mid_Engineer)
        base     == IF baseline_risk_score.given THEN baseline_risk_score.value
                    ELSE _estimate_baseline_risk(ctx)
        check    == feasibility(mutation, role_profile, ctx)
        samples  == [i \in 1..N_SIMULATIONS |-> trial(mutation, role_profile, ctx, base, ds[i])]
        mean_risk     == mean_of_risk([i \in 1..N_SIMULATIONS |-> samples[i][1]], e)
        mean_velocity == Sum([i \in 1..N_SIMULATIONS |-> samples[i][2]]) \div N_SIMULATIONS
    IN  [mutation        |-> mutation,
         baseline_risk   |-> base,
         projected_risk  |-> mean_risk,
         risk_delta      |-> mean_risk - base,
         cost_delta      |-> IF mutation.action = "add" THEN role_profile.cost_per_day * 30
                             ELSE IF mutation.action = "remove"
                             THEN -(role_profile.cost_per_day * 30)
                             ELSE role_profile.cost_per_day * 5,
         velocity_change |-> mean_velocity,
         feasible        |-> check[1],
         warning         |-> check[2]]

\* results.sort(key=lambda r: r.risk_delta): ascending, equal keys keep their order.
\* Slip: the results are ranked by risk_delta descending.
DeltaLE_reversed(a, b) == a.risk_delta >= b.risk_delta

DeltaLE(a, b) == a.risk_delta <= b.risk_delta

RECURSIVE InsertByDelta(_, _)
InsertByDelta(sorted, r) ==
    IF sorted = <<>> THEN <<r>>
    ELSE IF DeltaLE(sorted[1], r)
    THEN <<sorted[1]>> \o InsertByDelta(Tail(sorted), r)
    ELSE <<r>> \o sorted

RECURSIVE SortByDelta(_)
SortByDelta(rs) ==
    IF rs = <<>> THEN <<>>
    ELSE InsertByDelta(SortByDelta(SubSeq(rs, 1, Len(rs) - 1)), rs[Len(rs)])

-----------------------------------------------------------------------------
(* Values of the variables a specification does not use *)

NoResult == [feasible |-> TRUE, penalty |-> 0, reason |-> <<"not called">>]
NoOpinion == [agent |-> "none", claim |-> <<>>, confidence |-> 0, evidence |-> <<>>]
NoCall   == [action_type |-> "not called", context |-> <<>>]

ArbIdle  == log = <<>> /\ consensus = NotCalled
LvlIdle  == score = 0 /\ level = "unused"
RiskIdle == /\ tickets = <<>> /\ now = 0 /\ scan = 0 /\ risk_score = 0
            /\ blocked_tickets = <<>> /\ overdue_tickets = <<>>
            /\ near_deadline_tickets = <<>> /\ reasons = <<>> /\ risk_level = "unused"
ConIdle  == call = NoCall /\ constraint_result = NoResult
SimIdle  == /\ context = <<>> /\ step = 0 /\ mc = <<>> /\ verdict = <<>>
            /\ comparisons = <<>> /\ opinion = NoOpinion
RunIdle  == seed = 0 /\ rng = 0 /\ runs = <<>>
AnaIdle  == /\ stage = "unused" /\ days_to_deadline = 0 /\ actions = <<>>
            /\ generator_calls = 0 /\ generator_outcome = "not called"
            /\ primary_reason = <<>>
TeamIdle == /\ request = <<>> /\ caller = "unused" /\ team_step = "unused" /\ team_context = <<>>
            /\ baseline = <<>> /\ mutations = <<>> /\ results = <<>> /\ reply = <<>>
            /\ roundoff = 0
NoEngineCall == [fn |-> "none", args |-> <<>>, means |-> <<>>, constraints |-> <<>>,
                 profiles |-> <<>>, contexts |-> <<>>]
EngIdle  == /\ distributions = <<>> /\ role_profiles = <<>> /\ caller_context = <<>>
            /\ caller_tickets = <<>> /\ calls = 0 /\ last_call = NoEngineCall
ScoreIdle == scoring = "unused" /\ scorings = <<>>
NoOp == [op |-> "none", project |-> None, status |-> 0]
CacheIdle == /\ clock = 0 /\ ticks = 0 /\ _risk_cache = <<>> /\ graph = <<>>
             /\ stored = <<>> /\ last_op = NoOp
MoreIdle == EngIdle /\ ScoreIdle /\ CacheIdle

-----------------------------------------------------------------------------
(* Arbitration of a debate log: the log grows by one turn at a time, as in   *)
(* run_debate, up to MaxTurns turns, and is then arbitrated                 *)

InitArbitrate ==
    /\ log = <<>>
    /\ consensus = NotCalled
    /\ LvlIdle /\ RiskIdle /\ ConIdle /\ SimIdle /\ RunIdle /\ AnaIdle /\ TeamIdle /\ MoreIdle

\* debate_log.append(response)
AppendTurn ==
    /\ consensus = NotCalled
    /\ Len(log) < MaxTurns
    /\ \E r \in AgentResponse : log' = Append(log, r)
    /\ UNCHANGED <<consensus, lvlVars, riskVars, conVars, simVars,
                 runVars, anaVars, teamVars, moreVars>>

\* final_consensus = self._arbitrate(debate_log)
Arbitrate ==
    /\ consensus = NotCalled
    /\ consensus' = _arbitrate(log)
    /\ UNCHANGED <<log, lvlVars, riskVars, conVars, simVars,
                 runVars, anaVars, teamVars, moreVars>>

NextArbitrate == AppendTurn \/ Arbitrate

SpecArbitrate == InitArbitrate /\ [][NextArbitrate]_vars

-----------------------------------------------------------------------------
(* Risk scoring: get_risk_level on a grid of scores, and analyze on every   *)
(* list of at most MaxTickets tickets                                       *)

\* Hundredths of 0 .. 1.2, and the two scores just above the thresholds.
Scores == {Hundredths(k) : k \in 0..120} \cup {30001 * (Scale \div 100000),
                                                70001 * (Scale \div 100000)}

InitRisk ==
    /\ \/ /\ score \in Scores /\ level = "not called"
          /\ tickets = <<>> /\ now = 0 /\ risk_level = "unused"
       \/ /\ LvlIdle
          /\ tickets \in TicketLists /\ now \in Nows /\ risk_level = "not set"
    /\ scan = 0 /\ risk_score = 0 /\ reasons = <<>>
    /\ blocked_tickets = <<>> /\ overdue_tickets = <<>> /\ near_deadline_tickets = <<>>
    /\ ArbIdle /\ ConIdle /\ SimIdle /\ RunIdle /\ AnaIdle /\ TeamIdle /\ MoreIdle

\* A call get_risk_level(score).
GetRiskLevel ==
    /\ level = "not called"
    /\ level' = get_risk_level(score)
    /\ UNCHANGED <<score, arbVars, riskVars, conVars, simVars,
                 runVars, anaVars, teamVars, moreVars>>

\* One iteration of "for tk in tickets".
ScanTicket ==
    /\ risk_level = "not set"
    /\ scan < Len(tickets)
    /\ LET tk == tickets[scan + 1]
       IN  IF ~IsActive(tk)
           THEN UNCHANGED <<risk_score, blocked_tickets, overdue_tickets,
                            near_deadline_tickets, reasons>>
           ELSE /\ risk_score' = risk_score + blocked_weight(tk) + deadline_weight(tk, now)
                /\ reasons' = reasons \o reasons_for(tk, now)
                /\ blocked_tickets' = IF IsBlocked(tk) THEN Append(blocked_tickets, tk)
                                      ELSE blocked_tickets
                /\ overdue_tickets' = IF deadline_pattern(tk, now) = "overdue"
                                      THEN Append(overdue_tickets, tk)
                                      ELSE overdue_tickets
                /\ near_deadline_tickets' = IF deadline_pattern(tk, now) = "near"
                                            THEN Append(near_deadline_tickets, tk)
                                            ELSE near_deadline_tickets
    /\ scan' = scan + 1
    /\ UNCHANGED <<tickets, now, risk_level, arbVars, lvlVars, conVars, simVars,
                 runVars, anaVars, teamVars, moreVars>>

\* After the loop: total_active, the blend, the clip and the level.
Normalise ==
    /\ risk_level = "not set"
    /\ scan = Len(tickets)
    /\ LET flagged_count == Len(blocked_tickets) + Len(overdue_tickets)
                            + Len(near_deadline_tickets)
           normalised    == normalise(risk_score, flagged_count, total_active_of(tickets))
       IN  /\ risk_score' = normalised
           /\ risk_level' = get_risk_level(normalised)
    /\ UNCHANGED <<tickets, now, scan, blocked_tickets, overdue_tickets,
                   near_deadline_tickets, reasons, arbVars, lvlVars, conVars, simVars,
                 runVars, anaVars, teamVars, moreVars>>

NextRisk == GetRiskLevel \/ ScanTicket \/ Normalise

SpecRisk == InitRisk /\ [][NextRisk]_vars

-----------------------------------------------------------------------------
(* Constraint evaluation: evaluate_intervention on every action and context *)

ActionTypes == {"ADD_ENGINEER", "ESCALATE_DEPENDENCY", "REDUCE_SCOPE", "ACCEPT_DELAY",
                "HIRE_CONTRACTOR", "Add Engineer"}

\* Contexts with and without the keys evaluate_intervention may read.
ConstraintContexts ==
    {[is_blocked |-> b] : b \in BOOLEAN}
    \cup {[is_blocked |-> b, days_to_deadline |-> d] :
              b \in BOOLEAN, d \in {1, 5, 7, 9, 10, 11, 30}}

InitConstraint ==
    /\ call \in [action_type : ActionTypes, context : ConstraintContexts]
    /\ constraint_result = NoResult
    /\ ArbIdle /\ LvlIdle /\ RiskIdle /\ SimIdle /\ RunIdle /\ AnaIdle /\ TeamIdle /\ MoreIdle

Evaluate ==
    /\ constraint_result = NoResult
    /\ constraint_result' = evaluate_intervention(call.action_type, call.context)
    /\ UNCHANGED <<call, arbVars, lvlVars, riskVars, simVars,
                 runVars, anaVars, teamVars, moreVars>>

NextConstraint == Evaluate

SpecConstraint == InitConstraint /\ [][NextConstraint]_vars

-----------------------------------------------------------------------------
(* Decision comparison: generate_decision_comparison on each context, one   *)
(* step per action of the loop, then the sort and the opinion               *)

BaselineSignals == [dependency_depth |-> 1, contention_score |-> 1,
                    skill_match_score |-> Scale]
AdverseSignals  == [dependency_depth |-> 5, contention_score |-> 5,
                    skill_match_score |-> Tenths(5)]

\* Contexts as analyze builds them (risk.py sim_context).
SimContexts ==
    {[is_blocked |-> FALSE, days_to_deadline |-> 30, signals |-> BaselineSignals],
     [is_blocked |-> TRUE,  days_to_deadline |-> 30, signals |-> AdverseSignals],
     [is_blocked |-> TRUE,  days_to_deadline |-> 8,  signals |-> BaselineSignals],
     [is_blocked |-> FALSE, days_to_deadline |-> 5,  signals |-> AdverseSignals]}

NoRun == [mean_rr |-> 0, p5_rr |-> 0, p95_rr |-> 0, mean_cp |-> 0, prob_positive |-> 0]
NoVerdict == [total_penalty |-> 0, net_benefit |-> 0, cost |-> "none", recommended |-> FALSE]

InitCompare ==
    /\ context \in SimContexts
    /\ step = 0 /\ mc = NoRun /\ verdict = NoVerdict
    /\ comparisons = <<>> /\ opinion = NoOpinion
    /\ call = NoCall /\ constraint_result = NoResult
    /\ ArbIdle /\ LvlIdle /\ RiskIdle /\ RunIdle /\ AnaIdle /\ TeamIdle /\ MoreIdle

\* One iteration of "for action in possible_actions", the run drawing one of
\* the pairs <<z_rr, z_cp>> of D.
CompareIteration(D) ==
    /\ step < Len(possible_actions)
    /\ \E d \in D :
          LET action == possible_actions[step + 1]
              cr     == evaluate_intervention(action, context)
              run    == _monte_carlo(action, context, d[1], d[2])
              v      == judge(cr, run)
          IN  /\ call' = [action_type |-> action, context |-> context]
              /\ constraint_result' = cr
              /\ mc' = run
              /\ verdict' = v
              /\ comparisons' = Append(comparisons, comparison(action, cr, run, v))
    /\ step' = step + 1
    /\ UNCHANGED <<context, opinion>>

CompareAction ==
    /\ CompareIteration(Draws \X Draws)
    /\ UNCHANGED <<arbVars, lvlVars, riskVars, runVars, anaVars, teamVars, moreVars>>

\* After the loop: the sort, the count of recommended entries, the opinion.
SortAndSummarise ==
    /\ step = Len(possible_actions)
    /\ opinion = NoOpinion
    /\ LET evidence == SelectSeq(comparisons, LAMBDA c : c.recommended)
           sorted   == SortDesc(comparisons)
       IN  /\ comparisons' = sorted
           /\ opinion' = simulation_opinion(sorted,
                             [i \in 1..Len(evidence) |-> evidence[i].action])
    /\ UNCHANGED <<context, step, mc, verdict, conVars>>

FinishComparison ==
    /\ SortAndSummarise
    /\ UNCHANGED <<arbVars, lvlVars, riskVars, runVars, anaVars, teamVars, moreVars>>

NextCompare == CompareAction \/ FinishComparison

SpecCompare == InitCompare /\ [][NextCompare]_vars

-----------------------------------------------------------------------------
(* Seeded runs: np.random.seed(seed), then calls of _monte_carlo on the      *)
(* global generator, the seed being applied again at any point              *)

MaxRuns == 3                    \* calls of _monte_carlo in one behaviour

RunActions == {"ADD_ENGINEER", "ESCALATE_DEPENDENCY"}

\* test_simulation_logic's two contexts, and the same two with a near deadline.
RunContexts ==
    {[signals |-> [dependency_depth |-> d, contention_score |-> 1,
                   skill_match_score |-> Scale],
      days_to_deadline |-> days] : d \in {1, 5}, days \in {30, 5}}

InitRuns ==
    /\ seed \in 0..(RngPeriod - 1)
    /\ rng = np_random_seed(seed)
    /\ runs = <<>>
    /\ ArbIdle /\ LvlIdle /\ RiskIdle /\ ConIdle /\ SimIdle /\ AnaIdle /\ TeamIdle /\ MoreIdle

\* np.random.seed(seed), again.
Reseed ==
    /\ runs # <<>>
    /\ rng' = np_random_seed(seed)
    /\ UNCHANGED <<seed, runs, arbVars, lvlVars, riskVars, conVars, simVars,
                   anaVars, teamVars, moreVars>>

\* A call _monte_carlo(action, context): rr_samples are drawn first, cp_samples
\* next.
MonteCarlo ==
    /\ Len(runs) < MaxRuns
    /\ \E action \in RunActions, ctx \in RunContexts :
          LET z_rr == Stream(rng, N_SIMULATIONS)
              z_cp == Stream(AdvanceBy(rng, N_SIMULATIONS), N_SIMULATIONS)
          IN  runs' = Append(runs, [action |-> action, context |-> ctx, at |-> rng,
                                    z_rr |-> z_rr,
                                    stats |-> _monte_carlo(action, ctx, z_rr, z_cp)])
    /\ rng' = AdvanceBy(rng, 2 * N_SIMULATIONS)
    /\ UNCHANGED <<seed, arbVars, lvlVars, riskVars, conVars, simVars, anaVars, teamVars, moreVars>>

NextRuns == Reseed \/ MonteCarlo

SpecRuns == InitRuns /\ [][NextRuns]_vars

-----------------------------------------------------------------------------
(* One analysis: analyze from the scan to the AnalysisResult.  The scan and  *)
(* the normalisation are the steps of SpecRisk; the steps after it follow   *)

\* The ticket rows of the analysed projects: blocked and due soon, overdue,
\* due soon, without a date, done, blocked with a malformed date.
AnalyzeRows ==
    {[status |-> "InProgress", priority |-> "Medium", dueDate |-> DueOn(5),
      blocker_id |-> "TKT-9", blocker_status |-> "InProgress"],
     [status |-> "InProgress", priority |-> "High", dueDate |-> DueOn(0),
      blocker_id |-> None, blocker_status |-> None],
     [status |-> "InProgress", priority |-> "Medium", dueDate |-> DueOn(5),
      blocker_id |-> None, blocker_status |-> None],
     [status |-> "InProgress", priority |-> "Medium", dueDate |-> NoDueDate,
      blocker_id |-> None, blocker_status |-> None],
     [status |-> "Done", priority |-> "Medium", dueDate |-> DueOn(0),
      blocker_id |-> None, blocker_status |-> None],
     [status |-> "InProgress", priority |-> "High", dueDate |-> BadDueDate,
      blocker_id |-> "TKT-9", blocker_status |-> "InProgress"]}

AnalyzeTickets == UNION {[1..n -> AnalyzeRows] : n \in 0..MaxTickets}

\* The outcomes of a run in an analysis: every trial draws a low risk reduction
\* and a high cost, or every trial a high risk reduction and a low cost.
UniformDraw(d) == [i \in 1..N_SIMULATIONS |-> d]
AnalyzeDraws == {<<UniformDraw(-2), UniformDraw(7)>>, <<UniformDraw(7), UniformDraw(-2)>>}

InitAnalyze ==
    /\ tickets \in AnalyzeTickets /\ now = 12
    /\ scan = 0 /\ risk_score = 0 /\ risk_level = "not set" /\ reasons = <<>>
    /\ blocked_tickets = <<>> /\ overdue_tickets = <<>> /\ near_deadline_tickets = <<>>
    /\ stage = "scan" /\ days_to_deadline = 0 /\ actions = <<>>
    /\ generator_calls = 0 /\ generator_outcome = "not called"
    /\ primary_reason = <<>>
    /\ context = <<>> /\ step = 0 /\ mc = NoRun /\ verdict = NoVerdict
    /\ comparisons = <<>> /\ opinion = NoOpinion
    /\ call = NoCall /\ constraint_result = NoResult
    /\ ArbIdle /\ LvlIdle /\ RunIdle /\ TeamIdle /\ MoreIdle

\* earliest_due, days_to_deadline, the signals of the project and sim_context.
BuildContext ==
    /\ stage = "scan" /\ risk_level \in {"LOW", "MEDIUM", "HIGH"}
    /\ days_to_deadline' = days_to_deadline_of(tickets, now)
    /\ \E signals \in {BaselineSignals, AdverseSignals} :
          context' = sim_context(blocked_tickets, days_to_deadline_of(tickets, now), signals)
    /\ stage' = "compare"
    /\ UNCHANGED <<actions, generator_calls, generator_outcome, primary_reason,
                   step, mc, verdict, comparisons, opinion, conVars,
                   arbVars, lvlVars, riskVars, runVars, teamVars, moreVars>>

\* self.simulator.generate_decision_comparison(risk_score, sim_context): the loop
AnalyzeCompare ==
    /\ stage = "compare"
    /\ CompareIteration(AnalyzeDraws)
    /\ UNCHANGED <<arbVars, lvlVars, riskVars, runVars, anaVars, teamVars, moreVars>>

\* ... and its sort and opinion
AnalyzeSort ==
    /\ stage = "compare"
    /\ SortAndSummarise
    /\ stage' = "intervene"
    /\ UNCHANGED <<days_to_deadline, actions, generator_calls, generator_outcome,
                   primary_reason, arbVars, lvlVars, riskVars, runVars, teamVars, moreVars>>

\* actions = self.simulator.simulate_interventions(risk_score, sim_context)
SimulateInterventions ==
    /\ stage = "intervene"
    /\ \E d \in [1..Len(possible_actions) -> AnalyzeDraws] :
          actions' = simulate_interventions(context, d)
    /\ stage' = "explain"
    /\ UNCHANGED <<days_to_deadline, generator_calls, generator_outcome, primary_reason,
                   simVars, conVars, arbVars, lvlVars, riskVars, runVars, teamVars, moreVars>>

\* The explanation: the generator is asked if there are reasons, and the
\* fallback is written if it raises.  reasons has an entry for every entry of
\* the three ticket lists.
Explain ==
    /\ stage = "explain"
    /\ IF reasons = <<>>
       THEN /\ primary_reason' = NoRisksDetected
            /\ UNCHANGED <<generator_calls, generator_outcome>>
       ELSE /\ generator_calls' = generator_calls + 1
            /\ \/ /\ generator_outcome' = "answered"
                  /\ primary_reason' = GeneratedText
               \/ /\ generator_outcome' = "failed"
                  /\ primary_reason' =
                         _generate_structured_fallback(
                             risk_score, days_to_deadline, blocked_tickets, overdue_tickets,
                             near_deadline_tickets, comparisons, actions)
    /\ stage' = "returned"
    /\ UNCHANGED <<days_to_deadline, actions, simVars, conVars,
                   arbVars, lvlVars, riskVars, runVars, teamVars, moreVars>>

AnalyzeScan      == stage = "scan" /\ ScanTicket
AnalyzeNormalise == stage = "scan" /\ Normalise

NextAnalyze ==
    \/ AnalyzeScan \/ AnalyzeNormalise \/ BuildContext \/ AnalyzeCompare \/ AnalyzeSort
    \/ SimulateInterventions \/ Explain

SpecAnalyze == InitAnalyze /\ [][NextAnalyze]_vars

-----------------------------------------------------------------------------
(* Specification of the team what-if query: POST /api/simulate-team, and *)
(* simulate_batch called directly                                         *)

MaxMutations == 3

Endpoint   == "POST /api/simulate-team"
DirectCall == "team_simulator.simulate_batch"

KnownActions == {"add", "remove", "transfer"}
RoleNames    == <<"Senior Engineer", "Mid Engineer", "Junior Engineer",
                  "Tech Lead", "QA Engineer", "DevOps Engineer">>
KnownRoles   == {RoleNames[i] : i \in 1..Len(RoleNames)}

TeamActions == KnownActions \cup {"swap"}
TeamRoles   == {"Senior Engineer", "Junior Engineer", "Intern"}

\* TeamMutation objects, and the dicts of a request (a key may be missing).
TeamMutations == [action : TeamActions, role : TeamRoles]
MutationDicts == TeamMutations \cup {[action |-> "remove"], [role |-> "Junior Engineer"]}

\* What _get_project_context returns, as far as the simulator reads it.
TeamContexts ==
    [is_blocked : BOOLEAN, active_tickets : {3, 4, 6},
     days_to_deadline : {0, 3, 4, 14, 15}, team_size : {1, 2, 3, 7, 8}]

BatchMutations ==
    {[action |-> "add", role |-> "Senior Engineer"],
     [action |-> "remove", role |-> "Senior Engineer"],
     [action |-> "transfer", role |-> "Junior Engineer"]}
BatchContexts ==
    {[is_blocked |-> TRUE, active_tickets |-> 4, days_to_deadline |-> 15, team_size |-> 3],
     [is_blocked |-> FALSE, active_tickets |-> 6, days_to_deadline |-> 3, team_size |-> 7]}

Baselines == {NoFloat, Float(Tenths(5))}
\* The ends of the range of a risk score, and a score of no short binary form.
EdgeBaselines == {Float(0), Float(Scale), Float(Tenths(3))}

\* SimulationResult.to_dict, without confidence and reasoning
to_dict(r) ==
    [mutation        |-> r.mutation,
     baseline_risk   |-> Round3(r.baseline_risk),
     projected_risk  |-> Round3(r.projected_risk),
     risk_delta      |-> Round3(r.risk_delta),
     cost_delta      |-> r.cost_delta,
     velocity_change |-> Round3(r.velocity_change),
     feasible        |-> r.feasible,
     warning         |-> r.warning]

NoReply == [status |-> 0, detail |-> <<>>, baseline_risk |-> 0, simulations |-> <<>>]
HTTPException(status_code, detail) ==
    [status |-> status_code, detail |-> detail, baseline_risk |-> 0, simulations |-> <<>>]

\* The position of the first dict of ms whose role is not in ROLE_PROFILES, 0 if none.
FirstUnknownRole(ms) ==
    LET bad == {i \in 1..Len(ms) : Get(ms[i], "role", "Mid Engineer") \notin KnownRoles}
    IN  IF bad = {} THEN 0 ELSE CHOOSE i \in bad : \A j \in bad : i <= j

InitTeam ==
    /\ ArbIdle /\ LvlIdle /\ RiskIdle /\ ConIdle /\ SimIdle /\ RunIdle /\ AnaIdle /\ MoreIdle
    /\ caller \in {Endpoint, DirectCall}
    /\ \/ /\ team_context \in TeamContexts
          /\ \E base \in Baselines \cup EdgeBaselines :
             \E m \in (IF caller = Endpoint THEN MutationDicts ELSE TeamMutations) :
                request = [mutations |-> <<m>>, baseline_risk |-> base]
       \/ /\ team_context \in BatchContexts
          /\ \E base \in Baselines :
             \E n \in {0} \cup (2..MaxMutations) : \E ms \in [1..n -> BatchMutations] :
                request = [mutations |-> ms, baseline_risk |-> base]
    /\ roundoff \in (IF request.baseline_risk.given /\ SumsExactly(request.baseline_risk.value)
                      THEN {0} ELSE Roundoff)
    /\ team_step = "called"
    /\ baseline = NoFloat
    /\ mutations = <<>>
    /\ results = <<>>
    /\ reply = NoReply

\* simulate_team_changes up to the call of simulate_batch
ReceiveQuery ==
    /\ team_step = "called"
    /\ caller = Endpoint
    /\ LET ms  == request.mutations
           bad == FirstUnknownRole(ms)
       IN  IF bad # 0
           THEN /\ reply' = HTTPException(400,
                                <<"Unknown role '", ms[bad].role, "'. Available: ">> \o RoleNames)
                /\ team_step' = "done"
                /\ UNCHANGED <<mutations, baseline>>
           ELSE /\ mutations' = [i \in 1..Len(ms) |->
                                    [action |-> Get(ms[i], "action", "add"),
                                     role   |-> Get(ms[i], "role", "Mid Engineer")]]
                /\ IF request.baseline_risk.given
                   THEN /\ baseline' = request.baseline_risk
                        /\ team_step' = "simulate"
                        /\ reply' = reply
                   ELSE \* _get_cached_risk is not defined in main.py: NameError
                        /\ reply' = HTTPException(500, <<"name '_get_cached_risk' is not defined">>)
                        /\ team_step' = "done"
                        /\ baseline' = baseline
    /\ UNCHANGED <<request, caller, roundoff, team_context, results>>
    /\ UNCHANGED <<arbVars, lvlVars, riskVars, conVars, simVars, runVars, anaVars, moreVars>>

\* team_simulator.simulate_batch(mutations, baseline_risk_score) called directly
CallBatch ==
    /\ team_step = "called"
    /\ caller = DirectCall
    /\ mutations' = request.mutations
    /\ baseline' = request.baseline_risk
    /\ team_step' = "simulate"
    /\ UNCHANGED <<request, caller, roundoff, team_context, results, reply>>
    /\ UNCHANGED <<arbVars, lvlVars, riskVars, conVars, simVars, runVars, anaVars, moreVars>>

\* One element of simulate_batch's list comprehension
SimulateMutation ==
    /\ team_step = "simulate"
    /\ Len(results) < Len(mutations)
    /\ \E ds \in TeamDraws :
          results' = Append(results,
                            simulate_mutation(mutations[Len(results) + 1], baseline,
                                              team_context, ds, roundoff))
    /\ UNCHANGED <<request, caller, roundoff, team_step, team_context, baseline,
                   mutations, reply>>
    /\ UNCHANGED <<arbVars, lvlVars, riskVars, conVars, simVars, runVars, anaVars, moreVars>>

\* The sort that ends simulate_batch
RankResults ==
    /\ team_step = "simulate"
    /\ Len(results) = Len(mutations)
    /\ results' = SortByDelta(results)
    /\ team_step' = "ranked"
    /\ UNCHANGED <<request, caller, roundoff, team_context, baseline, mutations, reply>>
    /\ UNCHANGED <<arbVars, lvlVars, riskVars, conVars, simVars, runVars, anaVars, moreVars>>

\* The response of simulate_team_changes
Respond ==
    /\ team_step = "ranked"
    /\ caller = Endpoint
    /\ reply' = [status        |-> 200,
                 detail        |-> <<>>,
                 baseline_risk |-> IF results # <<>>
                                   THEN (IF baseline.given /\ baseline.value # 0
                                         THEN baseline.value
                                         ELSE results[1].baseline_risk)
                                   ELSE Tenths(3),
                 simulations   |-> [i \in 1..Len(results) |-> to_dict(results[i])]]
    /\ team_step' = "done"
    /\ UNCHANGED <<request, caller, roundoff, team_context, baseline, mutations, results>>
    /\ UNCHANGED <<arbVars, lvlVars, riskVars, conVars, simVars, runVars, anaVars, moreVars>>

NextTeam == ReceiveQuery \/ CallBatch \/ SimulateMutation \/ RankResults \/ Respond

SpecTeam == InitTeam /\ [][NextTeam]_vars
-----------------------------------------------------------------------------
(* A process that calls the engine functions one after the other, on the    *)
(* context and the tickets it holds.  What a call draws at random is left   *)
(* out: kept are the table entries and inputs it works with.                *)

MaxCalls == 2                   \* calls in one behaviour

\* Contexts on both sides of every threshold of _monte_carlo, and contexts
\* without signals or without a deadline.
EngineContexts ==
    {[signals |-> [dependency_depth |-> d, contention_score |-> c, skill_match_score |-> k],
      is_blocked |-> b, days_to_deadline |-> days] :
         d \in {2, 3}, c \in {3, 4}, k \in {Tenths(8), Hundredths(79)},
         b \in BOOLEAN, days \in {6, 7}}
    \cup {[is_blocked |-> TRUE], [signals |-> <<>>, days_to_deadline |-> 6]}

EngineTickets ==
    {<<>>,
     <<[status |-> "InProgress", priority |-> "High", dueDate |-> DueOn(5),
        blocker_id |-> "TKT-9", blocker_status |-> "InProgress"],
       [status |-> "Done", priority |-> "Medium", dueDate |-> NoDueDate,
        blocker_id |-> None, blocker_status |-> None]>>}

EngineMutations == [action : {"add", "remove", "transfer"},
                    role : {"Senior Engineer", "Junior Engineer", "Intern"}]

\* TeamCompositionSimulator._get_project_context for a project without a
\* deadline whose tickets have no assignee, as far as simulate_mutation reads it.
_get_project_context(tks) ==
    [is_blocked     |-> \E i \in 1..Len(tks) : IsBlocked(tks[i]),
     active_tickets |-> total_active_of(tks),
     days_to_deadline |-> 30,
     team_size      |-> 1]

\* ROLE_PROFILES.get(mutation.role, ROLE_PROFILES["Mid Engineer"])
profile_from(table, mutation) == Get(table, RoleKey(mutation.role), table.Mid_Engineer)

EngineCall(fn, args, means, constraints, profiles, contexts) ==
    [fn |-> fn, args |-> args, means |-> means, constraints |-> constraints,
     profiles |-> profiles, contexts |-> contexts]

InitEngine ==
    /\ distributions = MC_DISTRIBUTIONS
    /\ role_profiles = ROLE_PROFILES
    /\ caller_context \in EngineContexts
    /\ caller_tickets \in EngineTickets
    /\ calls = 0
    /\ last_call = NoEngineCall
    /\ ArbIdle /\ LvlIdle /\ RiskIdle /\ ConIdle /\ SimIdle /\ RunIdle /\ AnaIdle /\ TeamIdle
    /\ ScoreIdle /\ CacheIdle

\* What every call leaves as it found it.
EngineFrame ==
    /\ calls' = calls + 1
    /\ UNCHANGED <<role_profiles, caller_context, caller_tickets>>
    /\ UNCHANGED <<arbVars, lvlVars, riskVars, conVars, simVars, runVars, anaVars, teamVars,
                   scoreVars, cacheVars>>

\* constraint_agent.evaluate_intervention(action, context)
CallEvaluateIntervention ==
    /\ calls < MaxCalls
    /\ \E action \in ActionTypes :
          last_call' = EngineCall("evaluate_intervention", <<action>>, <<>>,
                                  <<evaluate_intervention(action, caller_context)>>,
                                  <<>>, <<>>)
    /\ distributions' = distributions
    /\ EngineFrame

\* simulator._monte_carlo(action, context)
CallMonteCarlo ==
    /\ calls < MaxCalls
    /\ \E action \in ActionTypes :
          LET means == sampling_means(distributions, action, caller_context)
          IN  /\ last_call' = EngineCall("_monte_carlo", <<action>>, <<means>>, <<>>, <<>>, <<>>)
              /\ distributions' = table_after_monte_carlo(distributions, action, means)
    /\ EngineFrame

\* simulator.generate_decision_comparison(risk_score, context): every action is
\* evaluated and run.
CallDecisionComparison ==
    /\ calls < MaxCalls
    /\ last_call' =
          EngineCall("generate_decision_comparison", possible_actions,
                     [i \in 1..Len(possible_actions) |->
                         sampling_means(distributions, possible_actions[i], caller_context)],
                     [i \in 1..Len(possible_actions) |->
                         evaluate_intervention(possible_actions[i], caller_context)],
                     <<>>, <<>>)
    /\ distributions' = table_after_runs(distributions, possible_actions, caller_context)
    /\ EngineFrame

\* simulator.simulate_interventions(risk_score, context): every action is
\* evaluated, the feasible ones are run.
CallSimulateInterventions ==
    /\ calls < MaxCalls
    /\ LET run == SelectSeq(possible_actions,
                            LAMBDA a : evaluate_intervention(a, caller_context).feasible)
       IN  /\ last_call' =
                 EngineCall("simulate_interventions", run,
                            [i \in 1..Len(run) |->
                                sampling_means(distributions, run[i], caller_context)],
                            [i \in 1..Len(possible_actions) |->
                                evaluate_intervention(possible_actions[i], caller_context)],
                            <<>>, <<>>)
           /\ distributions' = table_after_runs(distributions, run, caller_context)
    /\ EngineFrame

\* team_simulator.simulate_mutation(mutation, baseline)
CallSimulateMutation ==
    /\ calls < MaxCalls
    /\ \E mutation \in EngineMutations :
          last_call' = EngineCall("simulate_mutation", <<mutation.action, mutation.role>>,
                                  <<>>, <<>>, <<profile_from(role_profiles, mutation)>>,
                                  <<_get_project_context(caller_tickets)>>)
    /\ distributions' = distributions
    /\ EngineFrame

\* team_simulator.simulate_batch(mutations, baseline), on two mutations
CallSimulateBatch ==
    /\ calls < MaxCalls
    /\ \E m1 \in BatchMutations, m2 \in BatchMutations :
          last_call' = EngineCall("simulate_batch", <<m1.action, m1.role, m2.action, m2.role>>,
                                  <<>>, <<>>,
                                  <<profile_from(role_profiles, m1),
                                    profile_from(role_profiles, m2)>>,
                                  <<_get_project_context(caller_tickets),
                                    _get_project_context(caller_tickets)>>)
    /\ distributions' = distributions
    /\ EngineFrame

NextEngine ==
    \/ CallEvaluateIntervention \/ CallMonteCarlo \/ CallDecisionComparison
    \/ CallSimulateInterventions \/ CallSimulateMutation \/ CallSimulateBatch

SpecEngine == InitEngine /\ [][NextEngine]_vars

-----------------------------------------------------------------------------
(* The risk scoring of analyze run several times by one DeliveryRiskAgent:   *)
(* each run scans and normalises as above and its result is kept             *)

MaxScorings == 3                \* scorings in one behaviour

\* The ticket lists of the projects scored: a blocked High-priority ticket due
\* soon; an overdue ticket and a done one; no ticket.
RescoreLists ==
    {<<[status |-> "InProgress", priority |-> "High", dueDate |-> DueOn(5),
        blocker_id |-> "TKT-9", blocker_status |-> "InProgress"]>>,
     <<[status |-> "InProgress", priority |-> "Medium", dueDate |-> DueOn(0),
        blocker_id |-> None, blocker_status |-> None],
       [status |-> "Done", priority |-> "Medium", dueDate |-> DueOn(0),
        blocker_id |-> None, blocker_status |-> None]>>,
     <<>>}

\* reasons: List[str] = [] at the start of analyze: a new list at every call.
\* Slip: the list the previous call left is used again.
initial_reasons_kept(left) == left

initial_reasons(left) == <<>>

InitRescore ==
    /\ scoring = "idle" /\ scorings = <<>>
    /\ tickets = <<>> /\ now = 0 /\ scan = 0 /\ risk_score = 0 /\ reasons = <<>>
    /\ blocked_tickets = <<>> /\ overdue_tickets = <<>> /\ near_deadline_tickets = <<>>
    /\ risk_level = "unused"
    /\ ArbIdle /\ LvlIdle /\ ConIdle /\ SimIdle /\ RunIdle /\ AnaIdle /\ TeamIdle /\ EngIdle /\ CacheIdle

\* analyze is called: the tickets fetched, the locals before the loop.
BeginScoring ==
    /\ scoring = "idle"
    /\ Len(scorings) < MaxScorings
    /\ tickets' \in RescoreLists
    /\ now' \in Nows
    /\ reasons' = initial_reasons(reasons)
    /\ risk_score' = 0
    /\ blocked_tickets' = <<>> /\ overdue_tickets' = <<>> /\ near_deadline_tickets' = <<>>
    /\ scan' = 0
    /\ risk_level' = "not set"
    /\ scoring' = "running"
    /\ UNCHANGED <<scorings, arbVars, lvlVars, conVars, simVars, runVars, anaVars, teamVars,
                   engVars, cacheVars>>

RescoreScan      == scoring = "running" /\ ScanTicket
RescoreNormalise == scoring = "running" /\ Normalise

\* The scoring is over: its result.
EndScoring ==
    /\ scoring = "running"
    /\ risk_level \in {"LOW", "MEDIUM", "HIGH"}
    /\ scorings' = Append(scorings, [tickets |-> tickets, now |-> now,
                                     risk_score |-> risk_score, risk_level |-> risk_level,
                                     supporting_signals |-> reasons])
    /\ scoring' = "idle"
    /\ UNCHANGED <<riskVars, arbVars, lvlVars, conVars, simVars, runVars, anaVars, teamVars,
                   engVars, cacheVars>>

NextRescore == BeginScoring \/ RescoreScan \/ RescoreNormalise \/ EndScoring

SpecRescore == InitRescore /\ [][NextRescore]_vars


-----------------------------------------------------------------------------
(* DebateCoordinator.run_debate: the analysis of the project, the turn of the *)
(* proposer, the turn of the reviewer (FinanceAgent.evaluate), arbitration   *)

DownArrow == "<U+2193>"         \* the character U+2193
EmDash    == "<U+2014>"         \* the character U+2014, which is not "-"

\* The words of action.replace("_", " ").title()
TitleWords(title) ==
    CASE title = "Add Engineer"        -> <<"Add", "Engineer">>
      [] title = "Escalate Dependency" -> <<"Escalate", "Dependency">>
      [] title = "Reduce Scope"        -> <<"Reduce", "Scope">>
      [] title = "Accept Delay"        -> <<"Accept", "Delay">>

\* The words of a piece of a reason of constraints.py
PieceWords(piece) ==
    CASE piece = "Standard onboarding cost applies."
             -> <<"Standard", "onboarding", "cost", "applies.">>
      [] piece = "Uses social capital but clears blockage."
             -> <<"Uses", "social", "capital", "but", "clears", "blockage.">>
      [] piece = "No constraints detected." -> <<"No", "constraints", "detected.">>
      [] piece = "Ramp-up time (avg " -> <<"Ramp-up", "time">>
      [] piece = " days) exceeds deadline window."
             -> <<"days)", "exceeds", "deadline", "window.">>
      [] OTHER -> <<"(avg", piece>>

RECURSIVE ReasonWords(_)
ReasonWords(reason) ==
    IF reason = <<>> THEN <<>> ELSE PieceWords(reason[1]) \o ReasonWords(Tail(reason))

\* The text of a message of simulate_interventions, word by word:
\* "{title} (risk {arrow}{mean_rr:.0%}, {prob_positive:.0%} conf)" and, if there
\* is a note, " {dash} Note: {reason}".
MessageText(msg) ==
    TitleWords(msg.action)
    \o <<"(risk", DownArrow \o ToString(msg.risk) \o "%,", ToString(msg.conf) \o "%", "conf)">>
    \o (IF msg.note # <<>> THEN <<EmDash, "Note:">> \o ReasonWords(msg.note) ELSE <<>>)

\* needle in text, for a needle that is made of whole words.  No word of a
\* message holds one of the words searched for as a proper part.
Occurs(needle, text) ==
    \E i \in 0..(Len(text) - Len(needle)) : SubSeq(text, i + 1, i + Len(needle)) = needle

\* Slip: ">=" for ">", which makes a score of exactly 0.4 propose.
risk_vote_inclusive(risk_score_) ==
    IF risk_score_ >= Tenths(4) THEN AgentVote.PROPOSE ELSE AgentVote.AGREE

\* AgentVote.PROPOSE if risk_analysis.risk_score > 0.4 else AgentVote.AGREE
risk_vote(risk_score_) ==
    IF risk_score_ > Tenths(4) THEN AgentVote.PROPOSE ELSE AgentVote.AGREE

\* risk_proposal, of the fields of risk_analysis
risk_proposal_of(risk_score_, primary_reason_, recommended_actions) ==
    [agent_name |-> "RiskAgent",
     vote |-> risk_vote(risk_score_),
     claim |-> primary_reason_,
     confidence |-> Hundredths(85),
     cost_projection |-> None,
     proposed_action |-> IF recommended_actions # <<>>
                         THEN MessageText(recommended_actions[1])
                         ELSE <<"Monitor">>]

\* state.context of the DebateState run_debate builds
debate_context(signals, risk_score_, recommended_actions) ==
    [signals |-> signals,
     legacy_analysis |-> [risk_score |-> risk_score_,
                          recommended_actions |-> recommended_actions]]

COST_PER_DEV_DAY == 800

SeniorEngineerDays == 30        \* cost_impact = 1200 * 30
SeniorEngineerRate == 1200

\* f"{cost_impact/1000:.1f}", for a cost_impact that is a whole number of hundreds
Thousands(cost_impact) ==
    ToString(cost_impact \div 1000) \o "." \o ToString((cost_impact % 1000) \div 100)

\* Slip: the search is for "Add Engineer", which the messages do hold.
mentions_senior_engineer_loosely(proposal) == Occurs(<<"Add", "Engineer">>, proposal)

\* "Add Senior Engineer" in proposal
mentions_senior_engineer(proposal) == Occurs(<<"Add", "Senior", "Engineer">>, proposal)

\* FinanceAgent.evaluate(state, risk_proposal), state.context being ctx
evaluate(ctx, risk_proposal) ==
    LET team_size   == Len(Get(ctx, "team_members", <<>>))
        daily_burn  == team_size * COST_PER_DEV_DAY
        proposal    == IF risk_proposal.proposed_action = None
                       THEN <<>> ELSE risk_proposal.proposed_action
        senior_cost == SeniorEngineerRate * SeniorEngineerDays
        answer ==
            IF mentions_senior_engineer(proposal)
            THEN IF senior_cost > daily_burn * 10
                 THEN [vote |-> AgentVote.CHALLENGE,
                       claim |-> <<"Proposed addition is too expensive ($",
                                   Thousands(senior_cost), "k).">>,
                       confidence |-> Hundredths(85), cost_impact |-> senior_cost]
                 ELSE [vote |-> AgentVote.AGREE,
                       claim |-> <<"Investment of $", Thousands(senior_cost),
                                   "k is justified for risk reduction.">>,
                       confidence |-> Hundredths(90), cost_impact |-> senior_cost]
            ELSE IF Occurs(<<"Reduce", "Scope">>, proposal)
            THEN [vote |-> AgentVote.AGREE,
                  claim |-> <<"Scope reduction is cost-neutral and effectively reduces burn risk.">>,
                  confidence |-> Hundredths(90), cost_impact |-> 0]
            ELSE IF Occurs(<<"Escalate">>, proposal)
            THEN [vote |-> AgentVote.AGREE,
                  claim |-> <<"Escalation incurs no direct financial cost but uses management capital.">>,
                  confidence |-> Hundredths(90), cost_impact |-> 0]
            ELSE [vote |-> AgentVote.AGREE,
                  claim |-> <<"Budget allows for standard remediation.">>,
                  confidence |-> Hundredths(90), cost_impact |-> 0]
    IN  [agent_name |-> "FinanceAgent",
         vote |-> answer.vote,
         claim |-> answer.claim,
         confidence |-> answer.confidence,
         cost_projection |-> answer.cost_impact,
         proposed_action |-> proposal]

\* One run of run_debate.  The analysis is the run of SpecAnalyze, which leaves
\* the log empty; the steps after it follow.
InitDebate == InitAnalyze

\* risk_proposal and debate_log = [risk_proposal]
CreateRiskProposal ==
    /\ stage = "returned" /\ log = <<>>
    /\ log' = <<risk_proposal_of(risk_score, primary_reason, actions)>>
    /\ UNCHANGED <<consensus, lvlVars, riskVars, conVars, simVars,
                   runVars, anaVars, teamVars, moreVars>>

\* finance_response = self.finance_agent.evaluate(state, risk_proposal), appended
FinanceReview ==
    /\ Len(log) = 1
    /\ log' = Append(log, evaluate(debate_context(context.signals, risk_score, actions), log[1]))
    /\ UNCHANGED <<consensus, lvlVars, riskVars, conVars, simVars,
                   runVars, anaVars, teamVars, moreVars>>

\* final_consensus = self._arbitrate(debate_log)
ArbitrateDebate ==
    /\ Len(log) = 2 /\ consensus = NotCalled
    /\ consensus' = _arbitrate(log)
    /\ UNCHANGED <<log, lvlVars, riskVars, conVars, simVars,
                   runVars, anaVars, teamVars, moreVars>>

NextDebate == NextAnalyze \/ CreateRiskProposal \/ FinanceReview \/ ArbitrateDebate

SpecDebate == InitDebate /\ [][NextDebate]_vars

-----------------------------------------------------------------------------
(* core/cache.py, _build_project_context of main.py and the ticket routes of *)
(* api/routes.py, called one after the other in one process                *)

RISK_CACHE_TTL == 300           \* seconds

MaxTicks == 3                   \* advances of the clock in one behaviour

Projects  == {"P1", "P2"}
TicketIds == {"T1", "T2"}

\* The names core/crud.py defines.
crud_names ==
    {"get_all_teams", "get_team", "get_project", "get_projects_for_team",
     "get_tickets_for_project", "create_ticket", "update_ticket", "update_ticket_status",
     "delete_ticket", "get_all_members"}

\* from ..core.crud import names: whether it raises ImportError
ImportError(names) == ~(names \subseteq crud_names)

\* None, as get_cached_risk returns it
NoRiskResult == [project |-> None, tickets |-> {}]

\* What risk_agent.analyze(project_id) returns: it is told apart by the project
\* and by the tickets the project held when it ran.
analysis(graph_, project_id) ==
    [project |-> project_id,
     tickets |-> {id \in DOMAIN graph_ : graph_[id].project = project_id}]

\* Slip: "<=" for "<", which serves an entry of exactly 300 seconds.
get_cached_risk_inclusive(cache, project_id, time_) ==
    IF project_id \in DOMAIN cache /\ (time_ - cache[project_id].ts) <= RISK_CACHE_TTL
    THEN cache[project_id].result
    ELSE NoRiskResult

\* get_cached_risk(project_id), time.time() being time_
get_cached_risk(cache, project_id, time_) ==
    IF project_id \in DOMAIN cache /\ (time_ - cache[project_id].ts) < RISK_CACHE_TTL
    THEN cache[project_id].result
    ELSE NoRiskResult

\* _risk_cache after set_cached_risk(project_id, result)
set_cached_risk(cache, project_id, result, time_) ==
    [q \in DOMAIN cache \cup {project_id} |->
        IF q = project_id THEN [result |-> result, ts |-> time_] ELSE cache[q]]

\* _risk_cache after invalidate_project_risk(project_id)
invalidate_project_risk(cache, project_id) ==
    [q \in DOMAIN cache \ {project_id} |-> cache[q]]

Op(name, project_id, status, result) ==
    [op |-> name, project |-> project_id, status |-> status, result |-> result]

NeverStored == [set |-> FALSE, result |-> NoRiskResult, ts |-> 0, written |-> FALSE]

\* The history after set_cached_risk(project_id, result) ...
history_after_set(project_id, result) ==
    [stored EXCEPT ![project_id] = [set |-> TRUE, result |-> result, ts |-> clock,
                                    written |-> FALSE]]

\* ... and after a ticket of the project was written.
history_after_write(project_id) ==
    [stored EXCEPT ![project_id].written = TRUE]

\* A process that has served for a while: ticket T1 is in project P1, and the
\* cache is empty.
InitCache ==
    /\ clock = 0 /\ ticks = 0
    /\ _risk_cache = <<>>
    /\ graph = [id \in {"T1"} |-> [project |-> "P1", status |-> "To Do"]]
    /\ stored = [p \in Projects |-> NeverStored]
    /\ last_op = Op("none", None, 0, NoRiskResult)
    /\ ArbIdle /\ LvlIdle /\ RiskIdle /\ ConIdle /\ SimIdle /\ RunIdle /\ AnaIdle /\ TeamIdle
    /\ EngIdle /\ ScoreIdle

CacheFrame ==
    UNCHANGED <<arbVars, lvlVars, riskVars, conVars, simVars, runVars, anaVars, teamVars,
                engVars, scoreVars>>

\* time.time() moves on, by a second or by a second less than the TTL.
Tick ==
    /\ ticks < MaxTicks
    /\ \E d \in {1, RISK_CACHE_TTL - 1} : clock' = clock + d
    /\ ticks' = ticks + 1
    /\ last_op' = Op("time passes", None, 0, NoRiskResult)
    /\ UNCHANGED <<_risk_cache, graph, stored>>
    /\ CacheFrame

GetCachedRisk ==
    /\ \E p \in Projects :
          last_op' = Op("get_cached_risk", p, 0, get_cached_risk(_risk_cache, p, clock))
    /\ UNCHANGED <<clock, ticks, _risk_cache, graph, stored>>
    /\ CacheFrame

\* set_cached_risk(project_id, result), the result being an analysis
SetCachedRisk ==
    /\ \E p \in Projects, q \in Projects :
          /\ _risk_cache' = set_cached_risk(_risk_cache, p, analysis(graph, q), clock)
          /\ stored' = history_after_set(p, analysis(graph, q))
          /\ last_op' = Op("set_cached_risk", p, 0, NoRiskResult)
    /\ UNCHANGED <<clock, ticks, graph>>
    /\ CacheFrame

InvalidateProjectRisk ==
    /\ \E p \in Projects :
          /\ _risk_cache' = invalidate_project_risk(_risk_cache, p)
          /\ last_op' = Op("invalidate_project_risk", p, 0, NoRiskResult)
    /\ UNCHANGED <<clock, ticks, graph, stored>>
    /\ CacheFrame

\* _build_project_context(project_id): the cached result, or a fresh analysis
\* that is stored; an exception of the analysis is passed over.
BuildProjectContext ==
    /\ \E p \in Projects :
          LET risk_result == get_cached_risk(_risk_cache, p, clock)
          IN  IF risk_result # NoRiskResult
              THEN /\ last_op' = Op("_build_project_context", p, 0, risk_result)
                   /\ UNCHANGED <<_risk_cache, stored>>
              ELSE \/ /\ _risk_cache' = set_cached_risk(_risk_cache, p, analysis(graph, p), clock)
                      /\ stored' = history_after_set(p, analysis(graph, p))
                      /\ last_op' = Op("_build_project_context", p, 0, analysis(graph, p))
                   \/ /\ last_op' = Op("_build_project_context", p, 0, NoRiskResult)
                      /\ UNCHANGED <<_risk_cache, stored>>
    /\ UNCHANGED <<clock, ticks, graph>>
    /\ CacheFrame

\* POST /projects/{project_id}/tickets: create_ticket, then the invalidation;
\* if create_ticket raises, the answer is 500 and nothing was written.  The
\* ticket is one the graph does not hold yet.
CreateProjectTicket ==
    /\ ~ImportError({"create_ticket"})
    /\ \E p \in Projects, id \in TicketIds \ DOMAIN graph, status \in {"To Do"} :
          \/ /\ graph' = [t \in DOMAIN graph \cup {id} |->
                            IF t = id THEN [project |-> p, status |-> status] ELSE graph[t]]
             /\ _risk_cache' = invalidate_project_risk(_risk_cache, p)
             /\ stored' = history_after_write(p)
             /\ last_op' = Op("create_project_ticket", p, 200, NoRiskResult)
          \/ /\ last_op' = Op("create_project_ticket", p, 500, NoRiskResult)
             /\ UNCHANGED <<graph, _risk_cache, stored>>
    /\ UNCHANGED <<clock, ticks>>
    /\ CacheFrame

\* A route whose import of core.crud raises: the ImportError is caught by
\* "except Exception" and answered with 500 before anything is read or written.
FailedImport(route) ==
    /\ last_op' = Op(route, None, 500, NoRiskResult)
    /\ UNCHANGED <<clock, ticks, _risk_cache, graph, stored>>
    /\ CacheFrame

\* PUT /tickets/{ticket_id}
UpdateTicketDetail ==
    /\ ImportError({"update_ticket", "get_ticket_project_id"})
    /\ FailedImport("update_ticket_detail")

\* PATCH /tickets/{ticket_id}/status
PatchTicketStatus ==
    /\ ImportError({"update_ticket_status", "get_ticket_project_id"})
    /\ FailedImport("patch_ticket_status")

\* DELETE /tickets/{ticket_id}
RemoveTicket ==
    /\ ImportError({"delete_ticket", "get_ticket_project_id"})
    /\ FailedImport("remove_ticket")

NextCache ==
    \/ Tick \/ GetCachedRisk \/ SetCachedRisk \/ InvalidateProjectRisk
    \/ BuildProjectContext \/ CreateProjectTicket
    \/ UpdateTicketDetail \/ PatchTicketStatus \/ RemoveTicket

SpecCache == InitCache /\ [][NextCache]_vars

-----------------------------------------------------------------------------
(* Properties of arbitration (SpecArbitrate) *)

Arbitrated   == consensus # NotCalled
HasVote(v)   == \E i \in 1..Len(log) : log[i].vote = v
FirstWith(v) == CHOOSE i \in 1..Len(log) :
                    /\ log[i].vote = v
                    /\ \A j \in 1..(i - 1) : log[j].vote # v
StatusQuo    == <<"Status Quo Maintained (No Action Needed)">>

\* C1: a log with a Veto turn is arbitrated to "Action Blocked by {agent_name}:
\* {claim}" of the earliest Veto turn, whatever the proposer voted and wherever
\* Challenge turns stand.
C1_FirstVetoBlocks ==
    (Arbitrated /\ HasVote("VETO")) =>
        consensus = Returned(<<"Action Blocked by ", log[FirstWith("VETO")].agent_name,
                               ": ", log[FirstWith("VETO")].claim>>)

\* C1 witness: arbitrated log whose first turn is a Challenge, followed by two
\* Veto turns of different agents with different claims.
C1_Witness ==
    /\ Arbitrated /\ Len(log) >= 3
    /\ log[1].vote = "CHALLENGE" /\ log[2].vote = "VETO" /\ log[3].vote = "VETO"
    /\ log[2].agent_name # log[3].agent_name /\ log[2].claim # log[3].claim

C3_ProposerDecides ==
    (Arbitrated /\ log # <<>>) =>
        /\ consensus.exc = "none"
        /\ \/ Len(consensus.ret) = 4 /\ consensus.ret[1] = "Action Blocked by "
                                     /\ consensus.ret[3] = ": "
           \/ Len(consensus.ret) = 5 /\ consensus.ret[1] = "Action Challenged: "
                                     /\ consensus.ret[5] = " Requires Review"
           \/ Len(consensus.ret) = 2 /\ consensus.ret[1] = "Approved: "
           \/ consensus.ret = StatusQuo
        /\ (~HasVote("VETO") /\ ~HasVote("CHALLENGE")) =>
              IF log[1].vote = "PROPOSE"
              THEN consensus.ret = <<"Approved: ", Str(log[1].proposed_action)>>
              ELSE consensus.ret = StatusQuo

\* C3 witness: the first turn agrees, a later turn proposes, and the result is
\* the status quo.
C3_Witness ==
    /\ Arbitrated /\ Len(log) >= 2 /\ ~HasVote("VETO") /\ ~HasVote("CHALLENGE")
    /\ log[1].vote = "AGREE" /\ log[2].vote = "PROPOSE"
    /\ consensus.ret = StatusQuo

\* C4 as stated: a proposer that voted Propose without a proposed_action, in a
\* log without Veto and Challenge, is arbitrated to "Approved: Monitor".
C4_MissingActionIsMonitor ==
    (/\ Arbitrated /\ log # <<>> /\ ~HasVote("VETO") /\ ~HasVote("CHALLENGE")
     /\ log[1].vote = "PROPOSE" /\ log[1].proposed_action = None) =>
        consensus = Returned(<<"Approved: ", "Monitor">>)

-----------------------------------------------------------------------------
(* Properties of risk scoring (SpecRisk) *)

Levels        == {"LOW", "MEDIUM", "HIGH"}
Rank(l)       == CASE l = "LOW" -> 1 [] l = "MEDIUM" -> 2 [] OTHER -> 3
LevelOf(x)    == IF 10 * x <= 3 * Scale THEN "LOW"
                 ELSE IF 10 * x <= 7 * Scale THEN "MEDIUM" ELSE "HIGH"
Scanning      == scan' = scan + 1               \* a step of the scan loop
Scanned       == tickets[scan + 1]              \* the ticket that step scans
Normalising   == risk_level = "not set" /\ risk_level' # "not set"
Flagged       == Len(blocked_tickets) + Len(overdue_tickets) + Len(near_deadline_tickets)
ActiveCount   == Cardinality({i \in 1..Len(tickets) : tickets[i].status # "Done"})
\* The weight a scan step added for the due date, read off the two date lists.
DateAdded     == Tenths(3) * (Len(overdue_tickets') - Len(overdue_tickets))
                 + Tenths(3) * (Len(near_deadline_tickets') - Len(near_deadline_tickets))

\* C6: a score <= 0.3 is LOW, one in (0.3, 0.7] is MEDIUM, one > 0.7 is HIGH, so
\* no higher score has a lower level; and the risk_level an analysis reports is
\* that level of the risk_score it reports.
C6_LevelByThresholds ==
    /\ level \in Levels =>
          /\ level = LevelOf(score)
          /\ \A s \in Scores : s >= score => Rank(get_risk_level(s)) >= Rank(level)
    /\ risk_level \in Levels => risk_level = LevelOf(risk_score)

\* C6 witness: an analysis of a non-empty ticket list that reports exactly 0.3,
\* the upper end of LOW.
C6_Witness ==
    tickets # <<>> /\ risk_level = "LOW" /\ risk_score = Tenths(3)

\* C7: scanning an active ticket adds 0.4 for a blocker that is not Done and 0.1
\* more if that blocked ticket has priority High; a Done or absent blocker adds
\* nothing, and neither does priority High on its own.
C7_BlockedWeight ==
    [][Scanning =>
          (risk_score' - risk_score) - DateAdded =
              IF /\ Scanned.status # "Done"
                 /\ Scanned.blocker_id # None /\ Scanned.blocker_status # "Done"
              THEN Tenths(4) + (IF Scanned.priority = "High" THEN Tenths(1) ELSE 0)
              ELSE 0]_vars

\* C7 witness: the scan has just passed a single active High ticket without a
\* due date whose blocker is not Done, and the raw score is 0.5.
C7_Witness ==
    /\ scan = 1 /\ risk_level = "not set" /\ risk_score = Tenths(5)
    /\ tickets[1].status # "Done" /\ tickets[1].priority = "High"
    /\ tickets[1].blocker_id # None /\ tickets[1].blocker_status # "Done"
    /\ tickets[1].dueDate = NoDueDate

\* C8 as stated: scanning an active ticket with a parsable due date adds 0.3 as
\* overdue if the due date is before now, 0.3 as deadline proximity if it is not
\* before now and at most 7 days after now, nothing if it is more than 7 days
\* after now, never both; a Done ticket adds nothing at all.
C8_DeadlineWeight ==
    [][Scanning =>
          LET due     == Scanned.dueDate.day * HoursPerDay
              overdue == due < now
              near    == due >= now /\ due - now <= 7 * HoursPerDay
          IN  /\ Scanned.status = "Done" =>
                    /\ risk_score' = risk_score
                    /\ UNCHANGED <<blocked_tickets, overdue_tickets, near_deadline_tickets>>
              /\ (Scanned.status # "Done" /\ ParsesAsDate(Scanned.dueDate)) =>
                    /\ overdue_tickets' = IF overdue THEN Append(overdue_tickets, Scanned)
                                          ELSE overdue_tickets
                    /\ near_deadline_tickets' =
                           IF near THEN Append(near_deadline_tickets, Scanned)
                           ELSE near_deadline_tickets
                    /\ DateAdded = IF overdue \/ near THEN Tenths(3) ELSE 0]_vars

\* C9: the reported risk_score is min(1, raw*0.6 + min(raw,1)*issue_ratio*0.4)
\* when a ticket is active and raw > 0, and min(1, raw) otherwise, with
\* issue_ratio = flagged entries / max(active tickets, 1); it lies in [0, 1].
C9_NormalisedScore ==
    [][Normalising =>
          LET raw == risk_score
              A   == Max(ActiveCount, 1)
          IN  /\ risk_score' >= 0 /\ risk_score' <= Scale
              /\ IF ActiveCount >= 1 /\ raw > 0
                 THEN risk_score' * 10 * A =
                          Min(Scale * 10 * A, raw * 6 * A + Min(raw, Scale) * Flagged * 4)
                 ELSE risk_score' = Min(Scale, raw)]_vars

\* C9 witness: two active tickets, one of them flagged (issue_ratio 0.5, raw 0.3),
\* reported as 0.3*0.6 + 0.3*0.5*0.4 = 0.24.
C9_Witness ==
    /\ risk_level \in Levels /\ ActiveCount = 2 /\ Flagged = 1
    /\ risk_score = Hundredths(24)

-----------------------------------------------------------------------------
(* Properties of the decision comparison (SpecCompare) and of constraint    *)
(* evaluation (SpecConstraint)                                              *)

Evaluated     == constraint_result # NoResult
HasDeadline   == "days_to_deadline" \in DOMAIN call.context
\* The entry of the list for the action the loop handled last.
CurrentEntry  == comparisons[CHOOSE i \in 1..Len(comparisons) :
                                 comparisons[i].action = Title(call.action_type)]
Entries(cs)   == {cs[i] : i \in 1..Len(cs)}
Sorting       == opinion = NoOpinion /\ opinion' # NoOpinion

\* C5, in every state: the entry of the action just simulated is recommended
\* exactly if its constraint result is feasible, mean risk reduction - mean cost
\* penalty - constraint penalty > 0.05 and probability_positive > 0.5; every
\* recommended entry is feasible; Add Engineer is not recommended when
\* days_to_deadline < 10.
C5_EntriesJudged ==
    step >= 1 =>
        /\ CurrentEntry.feasible = constraint_result.feasible
        /\ CurrentEntry.recommended <=>
              /\ constraint_result.feasible
              /\ mc.mean_rr - mc.mean_cp - constraint_result.penalty > Hundredths(5)
              /\ 2 * mc.prob_positive > Scale
        /\ \A c \in Entries(comparisons) :
              /\ c.recommended => c.feasible
              /\ (c.action = "Add Engineer" /\ context.days_to_deadline < 10)
                     => ~c.recommended

\* C5: the above holds of every entry while the list is built, and the final
\* sort returns the same entries, so it holds of every entry returned.
C5_RecommendedIff ==
    /\ []C5_EntriesJudged
    /\ [][Sorting => /\ Len(comparisons') = Len(comparisons)
                     /\ Entries(comparisons') = Entries(comparisons)]_vars

\* C5 witness: Add Engineer was simulated with net benefit > 0.05 and
\* probability_positive > 0.5, is infeasible and is not recommended.
C5_Witness ==
    /\ step = 1 /\ call.action_type = "ADD_ENGINEER"
    /\ ~constraint_result.feasible
    /\ mc.mean_rr - mc.mean_cp - constraint_result.penalty > Hundredths(5)
    /\ 2 * mc.prob_positive > Scale
    /\ ~comparisons[1].recommended

\* C10: for a context that carries days_to_deadline, Add Engineer is
\* (feasible=False, penalty=0.8) when days_to_deadline < 10 and (True, 0.2)
\* otherwise; Escalate Dependency is (True, 0.1) and every other action
\* (True, 0.0), in every context.
C10_ConstraintTable ==
    Evaluated =>
        /\ (call.action_type = "ADD_ENGINEER" /\ HasDeadline) =>
              IF call.context.days_to_deadline < 10
              THEN ~constraint_result.feasible /\ constraint_result.penalty = Tenths(8)
              ELSE constraint_result.feasible /\ constraint_result.penalty = Tenths(2)
        /\ call.action_type = "ESCALATE_DEPENDENCY" =>
              constraint_result.feasible /\ constraint_result.penalty = Tenths(1)
        /\ call.action_type \notin {"ADD_ENGINEER", "ESCALATE_DEPENDENCY"} =>
              constraint_result.feasible /\ constraint_result.penalty = 0

\* C10 witness: Add Engineer evaluated with exactly 10 days to the deadline is
\* feasible with penalty 0.2.
C10_Witness ==
    /\ Evaluated /\ call.action_type = "ADD_ENGINEER" /\ HasDeadline
    /\ call.context.days_to_deadline = 10
    /\ constraint_result.feasible /\ constraint_result.penalty = Tenths(2)

-----------------------------------------------------------------------------
(* Properties of seeded runs (SpecRuns) *)

RunPairs == {p \in (1..Len(runs)) \X (1..Len(runs)) : p[1] # p[2]}
\* Run i is Add Engineer with dependency_depth > 2 and run j is Add Engineer in
\* the same context but for dependency_depth <= 2.
DepthPair(i, j) ==
    /\ runs[i].action = "ADD_ENGINEER" /\ runs[j].action = "ADD_ENGINEER"
    /\ runs[i].context.signals.dependency_depth > 2
    /\ runs[j].context.signals.dependency_depth <= 2
    /\ runs[i].context.days_to_deadline = runs[j].context.days_to_deadline
    /\ runs[i].context.signals.contention_score = runs[j].context.signals.contention_score
    /\ runs[i].context.signals.skill_match_score = runs[j].context.signals.skill_match_score
SamplesOf(i) == rr_samples_of(adjusted(runs[i].action, runs[i].context), runs[i].z_rr)

\* C11 as stated: after np.random.seed(seed), any two calls of _monte_carlo with
\* the same action and the same context return the same mean_rr, p5_rr, p95_rr,
\* mean_cp and prob_positive, whatever calls were made before or between them.
C11_SeededRunsRepeat ==
    \A p \in RunPairs :
        (runs[p[1]].action = runs[p[2]].action /\ runs[p[1]].context = runs[p[2]].context)
            => runs[p[1]].stats = runs[p[2]].stats

-----------------------------------------------------------------------------
(* Properties of the list generate_decision_comparison returns (SpecCompare) *)

ComparisonReturned == opinion # NoOpinion
ActionTitles == {Title(possible_actions[i]) : i \in 1..Len(possible_actions)}

\* C13: the returned list has exactly one entry for each of Add Engineer,
\* Escalate Dependency, Reduce Scope and Accept Delay; every recommended entry
\* stands before every entry that is not recommended, and within each of the two
\* groups risk_reduction does not increase.
C13_OnePerActionSorted ==
    ComparisonReturned =>
        /\ Len(comparisons) = 4
        /\ \A a \in ActionTitles :
              Cardinality({i \in 1..Len(comparisons) : comparisons[i].action = a}) = 1
        /\ \A i, j \in 1..Len(comparisons) :
              i < j =>
                  /\ comparisons[j].recommended => comparisons[i].recommended
                  /\ comparisons[i].recommended = comparisons[j].recommended
                         => comparisons[i].risk_reduction >= comparisons[j].risk_reduction

\* C13 witness: a returned list with two recommended entries of different
\* risk_reduction, followed by an entry that is not recommended and has a higher
\* risk_reduction than both.
C13_Witness ==
    /\ ComparisonReturned
    /\ comparisons[1].recommended /\ comparisons[2].recommended
    /\ comparisons[1].risk_reduction > comparisons[2].risk_reduction
    /\ ~comparisons[3].recommended
    /\ comparisons[3].risk_reduction > comparisons[1].risk_reduction

-----------------------------------------------------------------------------
(* Properties of one analysis (SpecAnalyze) *)

ActionsReturned   == stage \in {"explain", "returned"}
RecommendedTitles == {c.action : c \in {e \in Entries(comparisons) : e.recommended}}
GeneratorFailed   == generator_outcome = "failed"
Explaining        == stage = "explain" /\ stage' = "returned"
RecommendedList   == SelectSeq(comparisons, LAMBDA c : c.recommended)
\* The three parts of the fallback summary, from the structured data alone.
DriverPart ==
    CASE blocked_tickets # <<>> ->
             Part("Primary Risk: is blocked by", <<Head(blocked_tickets)>>, 0, 0, <<>>, <<>>)
      [] blocked_tickets = <<>> /\ overdue_tickets # <<>> ->
             Part("Primary Risk: is overdue", <<Head(overdue_tickets)>>, 0, 0, <<>>, <<>>)
      [] blocked_tickets = <<>> /\ overdue_tickets = <<>> /\ near_deadline_tickets # <<>> ->
             Part("Primary Risk: is due in", <<Head(near_deadline_tickets)>>,
                  days_to_deadline, 0, <<>>, <<>>)
      [] OTHER -> Part("Status: on track", <<>>, 0, 0, <<>>, <<>>)
\* max(1, int(risk_score * days_to_deadline * 0.5)), the product being exact
DelayEstimate ==
    LET half == risk_score * days_to_deadline
    IN  IF half >= 2 * Scale THEN half \div (2 * Scale) ELSE 1
CounterfactualParts ==
    IF 10 * risk_score > 3 * Scale
    THEN <<Part("If No Action Taken", <<>>, DelayEstimate, Len(blocked_tickets), <<>>, <<>>)>>
    ELSE <<>>
InterventionParts ==
    CASE Len(RecommendedList) >= 2 ->
             <<Part("Recommended Intervention, Alternative", <<>>, 0, 0,
                    SubSeq(RecommendedList, 1, 2), <<>>)>>
      [] Len(RecommendedList) = 1 ->
             <<Part("Recommended Intervention", <<>>, 0, 0, RecommendedList, <<>>)>>
      [] Len(RecommendedList) = 0 /\ actions # <<>> ->
             <<Part("Suggested Action", <<>>, 0, 0, <<>>, <<Head(actions)>>)>>
      [] OTHER -> <<>>

\* C14 as stated: once recommended_actions is computed, the actions it names
\* are exactly the actions whose DecisionComparison of the same analysis is
\* flagged recommended, each named once.
C14_ActionsAreTheRecommended ==
    ActionsReturned =>
        /\ {actions[i].action : i \in 1..Len(actions)} = RecommendedTitles
        /\ Len(actions) = Cardinality(RecommendedTitles)

\* C20, in every state: the generator is called at most once; if it failed, it
\* was called once, the analysis has returned, and primary_reason is the
\* fallback summary: the primary risk driver (first blocked ticket, else first
\* overdue, else first near-deadline, else the on-track status), then the
\* delay estimate max(1, int(risk_score * days_to_deadline * 0.5)) when
\* risk_score > 0.3, then the first two recommended entries of the decision
\* comparison (the one, if there is only one; the first recommended action of
\* the actions list, if there is none).
C20_FallbackSummary ==
    /\ generator_calls <= 1
    /\ GeneratorFailed =>
          /\ generator_calls = 1
          /\ stage = "returned"
          /\ primary_reason = <<DriverPart>> \o CounterfactualParts \o InterventionParts

\* C20: the above, and the step that asks the generator leaves risk_score,
\* risk_level, the evidence lists, decision_comparison and recommended_actions
\* as they are, whether the generator answers or fails.
C20_FallbackKeepsResults ==
    /\ []C20_FallbackSummary
    /\ [][Explaining =>
             UNCHANGED <<risk_score, risk_level, blocked_tickets, overdue_tickets,
                         near_deadline_tickets, comparisons, opinion, actions>>]_vars

\* C20 witness: the generator failed in an analysis with a blocked ticket, a
\* risk_score above 0.3 and at least two recommended interventions, and the
\* summary has its three parts.
C20_Witness ==
    /\ GeneratorFailed /\ stage = "returned"
    /\ blocked_tickets # <<>> /\ 10 * risk_score > 3 * Scale
    /\ Len(RecommendedList) >= 2
    /\ Len(primary_reason) = 3
    /\ primary_reason[2].part = "If No Action Taken" /\ primary_reason[2].days >= 1

-----------------------------------------------------------------------------
(* Properties of the team what-if query (SpecTeam) *)

Ranked       == team_step \in {"ranked", "done"} /\ reply.status \in {0, 200}
Occurrences(xs, x) == Cardinality({i \in 1..Len(xs) : xs[i] = x})

\* C15: a result is infeasible exactly when the mutation adds a role whose
\* ramp_up_days is at least days_to_deadline, adds to a team of 8 or more,
\* removes from a team of at most 1, or removes from a team of at most 2 with
\* more than 3 active tickets; every other result, every transfer among them, is
\* feasible; and the warning is non-empty if and only if the result is infeasible.
C15_FeasibilityTable ==
    \A i \in 1..Len(results) :
        LET r == results[i]
            m == r.mutation
        IN  m.role \in KnownRoles =>
                LET ramp_up_days == ROLE_PROFILES[RoleKey(m.role)].ramp_up_days
                    infeasible ==
                        \/ /\ m.action = "add"
                           /\ \/ ramp_up_days >= team_context.days_to_deadline
                              \/ team_context.team_size >= 8
                        \/ /\ m.action = "remove"
                           /\ \/ team_context.team_size <= 1
                              \/ /\ team_context.team_size <= 2
                                 /\ team_context.active_tickets > 3
                IN  /\ r.feasible = ~infeasible
                    /\ (r.warning # NoWarning) = infeasible

\* C15 witness: a Junior Engineer (ramp-up 14 days) added 14 days before the
\* deadline to a team below 8 came out infeasible with a warning.
C15_Witness ==
    \E i \in 1..Len(results) :
        /\ results[i].mutation = [action |-> "add", role |-> "Junior Engineer"]
        /\ team_context.days_to_deadline = 14
        /\ team_context.team_size < 8
        /\ ~results[i].feasible
        /\ results[i].warning # NoWarning

\* The estimate of the baseline from the project context.
ContextEstimate ==
    LET sum == 30 + (IF team_context.is_blocked THEN 25 ELSE 0)
                  + (IF team_context.days_to_deadline < 7 THEN 20 ELSE 0)
                  + (IF team_context.active_tickets > 5 THEN 10 ELSE 0)
    IN  Hundredths(IF sum > 100 THEN 100 ELSE sum)

\* C16 as stated: a query to the endpoint whose roles are all known is answered
\* with the simulations, and every simulation's baseline_risk is the supplied
\* baseline, or the estimate from the context when none was supplied.
C16_QueryUsesBaselineOrEstimate ==
    (caller = Endpoint /\ team_step = "done" /\ FirstUnknownRole(request.mutations) = 0) =>
        /\ reply.status = 200
        /\ Len(reply.simulations) = Len(request.mutations)
        /\ \A i \in 1..Len(reply.simulations) :
              reply.simulations[i].baseline_risk =
                  IF request.baseline_risk.given THEN request.baseline_risk.value
                  ELSE ContextEstimate

\* C17: what simulate_batch returns has one result for each mutation of the list
\* it was given, each mutation's result once, infeasible ones included, with
\* risk_delta never decreasing along the list; the sort reorders the simulated
\* results without dropping or repeating one; and the list of mutations is the
\* one the caller passed.
C17_BatchRanksEveryResult ==
    /\ [](Ranked =>
            /\ Len(results) = Len(mutations)
            /\ \A i \in 1..Len(mutations) :
                  Cardinality({j \in 1..Len(results) : results[j].mutation = mutations[i]})
                      = Occurrences(mutations, mutations[i])
            /\ \A i \in 1..(Len(results) - 1) :
                  results[i].risk_delta <= results[i + 1].risk_delta
            /\ (caller = DirectCall => mutations = request.mutations))
    /\ [][(team_step = "simulate" /\ team_step' = "ranked") =>
            /\ \A i \in 1..Len(results) :
                  Occurrences(results', results[i]) = Occurrences(results, results[i])
            /\ Len(results') = Len(results)
            /\ mutations' = mutations]_vars

\* C17 witness: three mutations were ranked, one of them infeasible, and the
\* first result is not the first mutation's.
C17_Witness ==
    /\ team_step = "ranked"
    /\ Len(results) = 3
    /\ \E i \in 1..3 : ~results[i].feasible
    /\ results[1].mutation # mutations[1]
    /\ results[1].risk_delta < results[3].risk_delta

\* C18 as stated: no result is produced for a mutation whose action is outside
\* add, remove and transfer or whose role is outside the role profiles.
C18_UnknownMutationRejected ==
    \A i \in 1..Len(results) :
        /\ results[i].mutation.action \in KnownActions
        /\ results[i].mutation.role \in KnownRoles

\* C19 as stated: Add Engineer evaluated on a context without days_to_deadline is
\* feasible with penalty 0.2, as it is 30 days before the deadline.
C19_MissingDeadlineIsThirty ==
    (/\ constraint_result # NoResult
     /\ call.action_type = "ADD_ENGINEER"
     /\ "days_to_deadline" \notin DOMAIN call.context) =>
        /\ constraint_result.feasible
        /\ constraint_result.penalty = Tenths(2)
-----------------------------------------------------------------------------
(* Further properties of the risk scan (SpecRisk) *)

\* C27 as stated: the issue ratio of the normalisation is a fraction of the active
\* tickets, flagged_count <= total_active, so the normalised risk_score is never
\* above the raw accumulated score, also when one ticket stands in two lists.
C27_IssueRatioIsFraction ==
    [][Normalising => (Flagged <= ActiveCount /\ risk_score' <= risk_score)]_vars

-----------------------------------------------------------------------------
(* Further properties of one analysis (SpecAnalyze) *)

\* The action the SimulationAgent opinion names: the second piece of its claim.
OpinionAction == opinion.claim[2]

\* C29 as stated: when the decision comparison recommends an action and
\* recommended_actions is not empty, the action the SimulationAgent opinion
\* names is the action of the first entry of recommended_actions.
C29_OpinionNamesFirstAction ==
    (ActionsReturned /\ actions # <<>> /\ RecommendedList # <<>>) =>
        OpinionAction = actions[1].action

\* The active tickets whose due date parses, and the days to the earliest of them.
Parsable == {i \in 1..Len(tickets) : /\ tickets[i].status # "Done"
                                     /\ tickets[i].dueDate.s \notin {"", BadDueDate.s}}
EarliestDay == CHOOSE d \in {tickets[i].dueDate.day : i \in Parsable} :
                   \A i \in Parsable : d <= tickets[i].dueDate.day
Malformed(tk) == tk.status # "Done" /\ tk.dueDate = BadDueDate
ContextBuilt == stage \in {"compare", "intervene", "explain", "returned"}

\* C25: the scan step of an active ticket with a malformed due date adds only
\* the blocked-dependency weight (0.4, and 0.1 more at High priority) and the
\* blocked evidence if the ticket is blocked, nothing and no evidence otherwise,
\* and leaves the overdue and near-deadline lists alone; the normalisation counts
\* the ticket among the active ones; days_to_deadline is that of the earliest
\* due date that parses, 30 if no active ticket has one.
C25_MalformedDateSkipped ==
    /\ [][(Scanning /\ Malformed(Scanned)) =>
             LET blocked == Scanned.blocker_id # None /\ Scanned.blocker_status # "Done"
                 high    == Scanned.priority = "High"
             IN  /\ UNCHANGED <<overdue_tickets, near_deadline_tickets>>
                 /\ risk_score' = risk_score
                                  + (IF blocked THEN Tenths(4) ELSE 0)
                                  + (IF blocked /\ high THEN Tenths(1) ELSE 0)
                 /\ blocked_tickets' = IF blocked THEN Append(blocked_tickets, Scanned)
                                       ELSE blocked_tickets
                 /\ reasons' = reasons
                        \o (IF blocked THEN <<Reason("is blocked by", Scanned, 0)>> ELSE <<>>)
                        \o (IF blocked /\ high
                            THEN <<Reason("Blocked ticket is HIGH priority", Scanned, 0)>>
                            ELSE <<>>)]_vars
    /\ [][(Normalising /\ risk_score > 0 /\ \E i \in 1..Len(tickets) : Malformed(tickets[i])) =>
             risk_score' * 10 * ActiveCount =
                 Min(Scale * 10 * ActiveCount,
                     risk_score * 6 * ActiveCount + Min(risk_score, Scale) * Flagged * 4)]_vars
    /\ [](ContextBuilt =>
             days_to_deadline = IF Parsable = {} THEN 30
                                ELSE (EarliestDay * HoursPerDay - now) \div HoursPerDay)

\* C25 witness: an analysis has returned for a list of a blocked High-priority
\* ticket with a malformed date and a ticket due on day 5; the first has its two
\* entries of evidence and is in no date list, and days_to_deadline is 4.
C25_Witness ==
    /\ stage = "returned" /\ Len(tickets) = 2
    /\ Malformed(tickets[1]) /\ tickets[2].dueDate = DueOn(5) /\ tickets[2].blocker_id = None
    /\ blocked_tickets = <<tickets[1]>> /\ near_deadline_tickets = <<tickets[2]>>
    /\ Len(reasons) = 3 /\ reasons[2].text = "Blocked ticket is HIGH priority"
    /\ days_to_deadline = 4

-----------------------------------------------------------------------------
(* Further properties of the team what-if query (SpecTeam) *)

ProfileOf(mutation) ==
    Get(ROLE_PROFILES, RoleKey(mutation.role), ROLE_PROFILES.Mid_Engineer)
\* The projected risks the trials of the result r can yield.
TrialRisks(r) ==
    {trial(r.mutation, ProfileOf(r.mutation), team_context, r.baseline_risk, d)[1] :
         d \in TrialDraws}
InUnit(x) == 0 <= x /\ x <= Scale

\* C26 as stated: for every result, each trial's projected risk and the
\* averaged projected_risk lie in [0, 1], risk_delta is projected_risk minus
\* baseline_risk, risk_delta <= 0 for add and for transfer and risk_delta >= 0
\* for remove.
C26_DeltaHasTheSignOfTheAction ==
    \A i \in 1..Len(results) :
        LET r == results[i]
        IN  /\ InUnit(r.baseline_risk)
            /\ \A x \in TrialRisks(r) : InUnit(x)
            /\ InUnit(r.projected_risk)
            /\ r.risk_delta = r.projected_risk - r.baseline_risk
            /\ r.mutation.action \in {"add", "transfer"} => r.risk_delta <= 0
            /\ r.mutation.action = "remove" => r.risk_delta >= 0

\* C26 as amended: the ranges and risk_delta = projected_risk - baseline_risk
\* as stated; the sign holds up to the rounding error of the float mean (one
\* unit of the arithmetic here, 1/Scale): for add
\* and for transfer risk_delta is at most a rounding error and the risk_delta
\* that to_dict reports, rounded to 3 decimals, is <= 0; for remove risk_delta
\* is at least minus a rounding error and the reported one is >= 0.
C26_DeltaHasTheSignUpToRounding ==
    \A i \in 1..Len(results) :
        LET r == results[i]
        IN  /\ InUnit(r.baseline_risk)
            /\ \A x \in TrialRisks(r) : InUnit(x)
            /\ InUnit(r.projected_risk)
            /\ r.risk_delta = r.projected_risk - r.baseline_risk
            /\ r.mutation.action \in {"add", "transfer"} =>
                  /\ r.risk_delta <= 1
                  /\ to_dict(r).risk_delta <= 0
            /\ r.mutation.action = "remove" =>
                  /\ r.risk_delta >= -1
                  /\ to_dict(r).risk_delta >= 0

\* C26 witness: adding a Junior Engineer 3 days before the deadline of a project
\* that is not blocked, on the baseline 0.3: no trial lowers the risk, and
\* the float mean of the samples came out above the baseline; reported is 0.
C26_Witness ==
    /\ Len(results) = 1
    /\ results[1].mutation = [action |-> "add", role |-> "Junior Engineer"]
    /\ results[1].baseline_risk = Tenths(3)
    /\ TrialRisks(results[1]) = {Tenths(3)}
    /\ results[1].risk_delta > 0
    /\ to_dict(results[1]).risk_delta = 0

-----------------------------------------------------------------------------
(* Properties of the engine calls (SpecEngine) *)

MonteCarloCalled == last_call.fn = "_monte_carlo"
CalledAction     == last_call.args[1]
\* The signals of the caller's context; one the context lacks does not apply.
Deep       == Get(Get(caller_context, "signals", <<>>), "dependency_depth", 0) > 2
Contended  == Get(Get(caller_context, "signals", <<>>), "contention_score", 0) > 3
Unskilled  == Get(Get(caller_context, "signals", <<>>), "skill_match_score", Scale) < Tenths(8)
Blocked    == Get(caller_context, "is_blocked", FALSE)
Late       == Get(caller_context, "days_to_deadline", 30) < 7
\* A factor in tenths that applies under a condition, 1.0 otherwise.
Factor(applies, tenths) == IF applies THEN tenths ELSE 10

\* C24: the means and deviations a call of _monte_carlo samples with are, for
\* Add Engineer, rr 0.30 x (0.7 if depth > 2) x (1.3 if skill < 0.8) x (0.4 if
\* days < 7) and cp 0.20 x (1.2 if depth > 2) x (1.8 if days < 7); for Reduce
\* Scope rr 0.50 x (1.2 if contention > 3) and cp 0.15; for Escalate Dependency
\* rr 0.55 if blocked and 0.40 otherwise and cp 0.10; for Accept Delay rr 0 and
\* cp 0; the deviations are those of the table.
C24_SamplingMeans ==
    MonteCarloCalled =>
        LET used == last_call.means[1]
        IN  /\ CalledAction = "ADD_ENGINEER" =>
                  /\ used.rr_mean * 1000 =
                         Hundredths(30) * Factor(Deep, 7) * Factor(Unskilled, 13)
                                        * Factor(Late, 4)
                  /\ used.cp_mean * 100 = Hundredths(20) * Factor(Deep, 12) * Factor(Late, 18)
                  /\ used.rr_std = Hundredths(10) /\ used.cp_std = Hundredths(5)
            /\ CalledAction = "REDUCE_SCOPE" =>
                  /\ used.rr_mean * 10 = Hundredths(50) * Factor(Contended, 12)
                  /\ used.cp_mean = Hundredths(15)
                  /\ used.rr_std = Hundredths(15) /\ used.cp_std = Hundredths(5)
            /\ CalledAction = "ESCALATE_DEPENDENCY" =>
                  /\ used.rr_mean = IF Blocked THEN Hundredths(55) ELSE Hundredths(40)
                  /\ used.cp_mean = Hundredths(10)
                  /\ used.rr_std = Hundredths(12) /\ used.cp_std = Hundredths(4)
            /\ CalledAction = "ACCEPT_DELAY" =>
                  /\ used.rr_mean = 0 /\ used.cp_mean = 0
                  /\ used.rr_std = Hundredths(2) /\ used.cp_std = Hundredths(1)

\* C24 witness: Add Engineer was run on a context where the three adjustments
\* of its risk reduction all apply: 0.30 x 0.7 x 1.3 x 0.4 = 0.1092, and the
\* cost 0.20 x 1.2 x 1.8 = 0.432.
C24_Witness ==
    /\ MonteCarloCalled /\ CalledAction = "ADD_ENGINEER"
    /\ Deep /\ Unskilled /\ Late /\ Contended /\ Blocked
    /\ last_call.means[1].rr_mean = (Scale \div 10000) * 1092
    /\ last_call.means[1].cp_mean = (Scale \div 1000) * 432

\* The actions a call ran _monte_carlo for.
ActionsRun == IF last_call.fn \in {"generate_decision_comparison", "simulate_interventions"}
              THEN last_call.args
              ELSE IF MonteCarloCalled THEN <<CalledAction>> ELSE <<>>
\* The mutations of a call of the team simulator, from its arguments.
MutationsRun ==
    IF last_call.fn \in {"simulate_mutation", "simulate_batch"}
    THEN [i \in 1..(Len(last_call.args) \div 2) |->
             [action |-> last_call.args[2 * i - 1], role |-> last_call.args[2 * i]]]
    ELSE <<>>

\* C22: every call leaves MC_DISTRIBUTIONS, ROLE_PROFILES, the caller's context
\* and the caller's tickets as they were, so the tables always hold their
\* initial entries; and every call, whatever calls went before it, samples
\* with the means adjusted from the base entry of MC_DISTRIBUTIONS and works
\* with the profile of ROLE_PROFILES.
C22_CallsLeaveTablesAndInputs ==
    /\ [][calls' # calls =>
             UNCHANGED <<distributions, role_profiles, caller_context, caller_tickets>>]_vars
    /\ [](calls > 0 =>
             /\ distributions = MC_DISTRIBUTIONS
             /\ role_profiles = ROLE_PROFILES
             /\ Len(last_call.means) = Len(ActionsRun)
             /\ \A i \in 1..Len(ActionsRun) :
                   last_call.means[i] = adjusted(ActionsRun[i], caller_context)
             /\ Len(last_call.profiles) = Len(MutationsRun)
             /\ \A i \in 1..Len(MutationsRun) :
                   last_call.profiles[i] = ProfileOf(MutationsRun[i]))

\* C22 witness: the second call is a run of Add Engineer on a context that
\* lowers its risk reduction mean to 0.21, and the table still holds 0.30.
C22_Witness ==
    /\ calls = 2 /\ MonteCarloCalled /\ CalledAction = "ADD_ENGINEER"
    /\ Deep /\ ~Unskilled /\ ~Late
    /\ last_call.means[1].rr_mean = Hundredths(21)
    /\ distributions.ADD_ENGINEER.rr_mean = Hundredths(30)

-----------------------------------------------------------------------------
(* Properties of repeated scorings (SpecRescore) *)

\* C21: any two scorings of the same ticket list at the same instant returned
\* the same risk_score, the same risk_level and the same evidence list in the
\* same order, whatever was scored before or between them.
C21_ScoringRepeats ==
    \A i, j \in 1..Len(scorings) :
        (scorings[i].tickets = scorings[j].tickets /\ scorings[i].now = scorings[j].now) =>
            /\ scorings[i].risk_score = scorings[j].risk_score
            /\ scorings[i].risk_level = scorings[j].risk_level
            /\ scorings[i].supporting_signals = scorings[j].supporting_signals

\* C21 witness: the first and the third scoring are of the blocked ticket at
\* the same instant, with two entries of evidence and a HIGH level; the one
\* between them is of the overdue ticket, with evidence of its own.
C21_Witness ==
    /\ Len(scorings) = 3
    /\ scorings[1].tickets = scorings[3].tickets /\ scorings[1].now = scorings[3].now
    /\ scorings[2].tickets # scorings[1].tickets
    /\ Len(scorings[1].supporting_signals) = 3
    /\ Len(scorings[2].supporting_signals) = 1
    /\ scorings[3].risk_level = "HIGH"


-----------------------------------------------------------------------------
(* Properties of a debate run (SpecDebate) *)

ProposerTurn == log[1]
TopAction    == actions[1]

\* C23: the first turn of the debate log is the turn of RiskAgent; its vote is
\* Propose exactly when risk_score > 0.4 and Agree otherwise, 0.4 included; its
\* proposed_action is the first entry of the ranked recommendation list, or
\* "Monitor" when the list is empty; a turn of the reviewer stands after it.
C23_ProposerTurnFirst ==
    log # <<>> =>
        /\ ProposerTurn.agent_name = "RiskAgent"
        /\ ProposerTurn.vote = "PROPOSE" <=> risk_score > Tenths(4)
        /\ ProposerTurn.vote = "AGREE" <=> risk_score <= Tenths(4)
        /\ IF actions = <<>>
           THEN ProposerTurn.proposed_action = <<"Monitor">>
           ELSE /\ SubSeq(ProposerTurn.proposed_action, 1, 2) = TitleWords(TopAction.action)
                /\ ProposerTurn.proposed_action = MessageText(TopAction)
        /\ \A i \in 2..Len(log) : log[i].agent_name = "FinanceAgent"

\* C23 witness: a project scored exactly 0.4 whose proposer agreed on a
\* recommended action, and the reviewer has answered.
C23_Witness ==
    /\ Len(log) = 2
    /\ risk_score = Tenths(4)
    /\ ProposerTurn.vote = "AGREE"
    /\ actions # <<>>
    /\ log[2].agent_name = "FinanceAgent"

ReviewerTurn == log[2]
Outcome      == consensus.ret[1]

\* C28: the reviewer votes Agree for every action the proposer proposes, so the
\* consensus is "Approved: {proposed_action}" exactly when risk_score > 0.4 and
\* "Status Quo Maintained (No Action Needed)" otherwise; "Action Blocked" and
\* "Action Challenged" are never the outcome.
C28_ReviewerAgrees ==
    /\ Len(log) >= 2 => ReviewerTurn.vote = "AGREE"
    /\ Arbitrated =>
          /\ consensus.exc = "none"
          /\ Outcome \notin {"Action Blocked by ", "Action Challenged: "}
          /\ IF risk_score > Tenths(4)
             THEN consensus.ret = <<"Approved: ", ProposerTurn.proposed_action>>
             ELSE consensus.ret = StatusQuo

\* C28 witness: a debate on Add Engineer with its note on the onboarding cost,
\* for a project scored above 0.4, which ended approved.
C28_Witness ==
    /\ Arbitrated
    /\ risk_score > Tenths(4)
    /\ actions # <<>> /\ TopAction.action = "Add Engineer" /\ TopAction.note # <<>>
    /\ ReviewerTurn.vote = "AGREE"
    /\ Outcome = "Approved: "

-----------------------------------------------------------------------------
(* Properties of the risk cache (SpecCache) *)

Served(p)       == get_cached_risk(_risk_cache, p, clock)
ServedNext(p)   == get_cached_risk(_risk_cache', p, clock')
StoredFresh(p)  == /\ stored[p].set
                   /\ clock - stored[p].ts < RISK_CACHE_TTL
                   /\ ~stored[p].written

\* C30: get_cached_risk(P) returns a result only if that result was stored by
\* set_cached_risk(P) less than 300 seconds earlier and no ticket write for P
\* has succeeded since; otherwise it returns None; and an operation on one
\* project leaves what is returned for every other project as it was.
C30_CacheServesFreshResults ==
    /\ [](\A p \in Projects :
             /\ Served(p) # NoRiskResult => (StoredFresh(p) /\ Served(p) = stored[p].result)
             /\ ~StoredFresh(p) => Served(p) = NoRiskResult)
    /\ [](last_op.op \in {"get_cached_risk", "_build_project_context"} =>
             last_op.result \in {NoRiskResult, Served(last_op.project)})
    /\ [][clock' = clock =>
             \A q \in Projects \ {last_op'.project} : ServedNext(q) = Served(q)]_vars

\* C30 witness: P1's result is served 299 seconds after it was stored, while
\* P2's result, stored at the same time, is not: a ticket was created in P2.
C30_Witness ==
    /\ last_op.op = "get_cached_risk" /\ last_op.project = "P1"
    /\ last_op.result # NoRiskResult
    /\ clock - stored["P1"].ts = RISK_CACHE_TTL - 1
    /\ stored["P2"].set /\ stored["P2"].written /\ stored["P2"].ts = stored["P1"].ts
    /\ Served("P2") = NoRiskResult

====
